---- MODULE Spec2Model ----
(***************************************************************************)
(* The notebook backend as state machines, one specification for each      *)
(* component:                                                              *)
(*   Spec, FairSpec  the streaming tool-call loop of ask_stream            *)
(*                   (backend/server.py, generate_c1_response)             *)
(*   SpecChunk       TextChunker.chunk_text, HandwritingProcessor          *)
(*                   ._chunk_text (backend/pdf_processor.py)               *)
(*   SpecEmbed       EmbeddingGenerator.generate_embeddings                *)
(*   SpecPdf         PDFProcessor.process_pdf                              *)
(*   SpecSearch      SupabaseRAGStorage's retrieval of context for shapes  *)
(*                   and the part of ask_stream that calls it              *)
(*   SpecNote        upload_handwriting_image and the background task      *)
(*                   HandwritingProcessor.process_note                     *)
(*   SpecTyped       sync_typed_note with insert_typed_note and            *)
(*                   replace_typed_note_chunks                             *)
(*   SpecLinks       upsert_pdf_canvas_link and delete_pdf_canvas_link     *)
(* A specification starts its component on some input and holds the other  *)
(* components idle.                                                        *)
(*                                                                         *)
(* Strings that the code inspects character by character (the argument     *)
(* buffer of a tool call) are sequences of one-character strings.  The key *)
(* "altText" of the getImageSrc tool is written with the single letter a,  *)
(* any other key with the letter b.  With the fragments below every value  *)
(* of a JSON object is a string, so the JSON reader covers objects whose   *)
(* members are string : string pairs.                                      *)
(***************************************************************************)
EXTENDS Integers, Sequences, FiniteSets, TLC

None == "None"

\* ------------------------------------------------------------------ bounds
\* provider chunks delivered to one request (all turns together)
MaxDeltas == 3
\* longest argument buffer the provider builds up
MaxArgLen == 10
\* content deltas carrying text, per request
MaxContent == 2

\* ----------------------------------------------------------------- strings
Quote == "\""
Space == " "

RECURSIVE LStrip(_)
LStrip(s) == IF s # <<>> /\ Head(s) = Space THEN LStrip(Tail(s)) ELSE s

RECURSIVE RStrip(_)
RStrip(s) ==
    IF s # <<>> /\ s[Len(s)] = Space THEN RStrip(SubSeq(s, 1, Len(s) - 1)) ELSE s

\* str.strip()
Strip(s) == RStrip(LStrip(s))

StartsWith(s, c) == s # <<>> /\ s[1] = c
EndsWith(s, c) == s # <<>> /\ s[Len(s)] = c

\* the position of the first character at or after i that is not white space
RECURSIVE SkipWs(_, _)
SkipWs(s, i) == IF i <= Len(s) /\ s[i] = Space THEN SkipWs(s, i + 1) ELSE i

\* the position of the first quote at or after i, Len(s) + 1 when there is none
RECURSIVE FindQuote(_, _)
FindQuote(s, i) == IF i <= Len(s) /\ s[i] # Quote THEN FindQuote(s, i + 1) ELSE i

JsonFail == [ok |-> FALSE, val |-> <<>>, next |-> 0]

\* a JSON string starting at position i: its characters and the position after it
JsonString(s, i) ==
    IF i <= Len(s) /\ s[i] = Quote /\ FindQuote(s, i + 1) <= Len(s)
    THEN [ok |-> TRUE, val |-> SubSeq(s, i + 1, FindQuote(s, i + 1) - 1),
          next |-> FindQuote(s, i + 1) + 1]
    ELSE JsonFail

\* the members of a JSON object from position i on (after "{" or ","), as a
\* sequence of <<key, value>> pairs, and the position after the closing "}"
RECURSIVE JsonMembers(_, _, _)
JsonMembers(s, i, acc) ==
    LET k == JsonString(s, SkipWs(s, i))
        c == SkipWs(s, k.next)
        v == JsonString(s, SkipWs(s, c + 1))
        e == SkipWs(s, v.next)
    IN  IF ~k.ok \/ c > Len(s) \/ s[c] # ":" THEN JsonFail
        ELSE IF ~v.ok \/ e > Len(s) THEN JsonFail
        ELSE IF s[e] = "}" THEN [ok |-> TRUE, val |-> Append(acc, <<k.val, v.val>>), next |-> e + 1]
        ELSE IF s[e] = "," THEN JsonMembers(s, e + 1, Append(acc, <<k.val, v.val>>))
        ELSE JsonFail

\* json.loads on a document that is an object: ok and its members, or a failure
JsonLoads(s) ==
    LET i == SkipWs(s, 1)
        j == SkipWs(s, i + 1)
        m == IF j <= Len(s) /\ s[j] = "}"
             THEN [ok |-> TRUE, val |-> <<>>, next |-> j + 1]
             ELSE JsonMembers(s, i + 1, <<>>)
    IN  IF i > Len(s) \/ s[i] # "{" THEN JsonFail
        ELSE IF m.ok /\ SkipWs(s, m.next) = Len(s) + 1 THEN m
        ELSE JsonFail

\* bool(dict.get(key)): the last member with that key has a non-empty value
RECURSIVE DictGetTruthy(_, _)
DictGetTruthy(d, key) ==
    IF d = <<>> THEN FALSE
    ELSE IF d[Len(d)][1] = key THEN d[Len(d)][2] # <<>>
    ELSE DictGetTruthy(SubSeq(d, 1, Len(d) - 1), key)

RECURSIVE Flatten(_)
Flatten(ss) == IF ss = <<>> THEN <<>> ELSE Head(ss) \o Flatten(Tail(ss))

\* --------------------------------------------------------- the provider
\* argument fragments as the provider streams them: a JSON document cut
\* inside its tokens
FragA == <<"{", Quote, "a", Quote, ":", Quote>>
FragB == <<"b", Quote, "}">>
FragC == <<Quote, "}">>
FragD == <<"{", Quote, "b", Quote, ":", Quote>>
FragW == <<Space>>
Fragments == {FragA, FragB, FragC, FragD, FragW}
\* a complete document {"a":"b"} in one fragment
FragFull == FragA \o FragB

AltText == <<"a">>

CallIds == {"call_1", "call_2"}
ToolNames == {" ", "getImageSrc", "other"}
Texts == {"c1", "c2"}

NoFunctionDelta == [hasFunction |-> FALSE, id |-> "call_1", name |-> None, arguments |-> <<>>]
\* one element of delta.tool_calls; arguments None is written <<>>, as the code
\* reads it through (arguments or "")
ToolDeltas ==
    [hasFunction : {TRUE}, id : CallIds \cup {None}, name : ToolNames \cup {None},
     arguments : Fragments \cup {<<>>}] \cup {NoFunctionDelta}
FullDeltas ==
    [hasFunction : {TRUE}, id : CallIds, name : {"getImageSrc"}, arguments : {FragFull}]

EmptyChoices ==
    [choices |-> FALSE, content |-> None, tool_calls |-> <<>>, finish_reason |-> None]
ContentChunks ==
    [choices : {TRUE}, content : Texts \cup {""}, tool_calls : {<<>>},
     finish_reason : {None, "stop"}]
ToolChunks ==
    [choices : {TRUE}, content : {None}, tool_calls : {<<d>> : d \in ToolDeltas},
     finish_reason : {None, "tool_calls"}]
FinishChunks ==
    [choices : {TRUE}, content : {None}, tool_calls : {<<>>},
     finish_reason : {"length", "tool_calls"}]
\* text and two calls in one chunk
PairChunks ==
    [choices : {TRUE}, content : {"c1"},
     tool_calls : {<<d, e>> : d \in FullDeltas, e \in {f \in FullDeltas : f.id = "call_2"}},
     finish_reason : {None, "tool_calls"}]
Chunks == {EmptyChoices} \cup ContentChunks \cup ToolChunks \cup FinishChunks \cup PairChunks
\* what a provider sends whose every turn requests one valid getImageSrc call
ValidCallChunks ==
    [choices : {TRUE}, content : {None},
     tool_calls : {<<d>> : d \in {f \in FullDeltas : f.id = "call_1"}},
     finish_reason : {"tool_calls"}]

\* a bare prompt, or a prompt with conversation context and selected shapes
Requests == {[context |-> FALSE, selection |-> FALSE], [context |-> TRUE, selection |-> TRUE]}

\* image_tool.search_image: the first hit's URL, or None
ToolResults == {"url", None}

\* ------------------------------------------------------------- the program
VARIABLES
    pc,                  \* where generate_c1_response stands
    request,             \* the request: has context, has selection context entries
    provider,            \* "any" provider, or one whose every turn requests a valid call
    messages,            \* the conversation, completion_params["messages"]
    current_tool_call,   \* <<>> for None, <<[name, arguments]>> for a call
    tool_call_id,
    tool_call_round,
    tool_call_executed,
    last_finish_reason,
    events,              \* what the generator has yielded to the caller
    stalled,             \* the open turn delivers nothing more and never ends
    \* history, read by the properties only
    turnsOpened,         \* calls of client.chat.completions.create
    sent,                \* the message list the last turn was opened with
    toolsExecuted,       \* calls of image_tool.search_image
    consumed,            \* the text of the content deltas consumed
    callFrags,           \* the argument fragments received for the call in progress
    switched,            \* the call in progress replaced another one in progress
    calls,               \* the calls started so far
    conflicted,          \* the call in progress was sent a second, different name
    lastExec,            \* the call executed last, as search_image was called for it
    failedTurn,          \* the turn in which a call failed validation, 0 for none
    deltas               \* chunks delivered so far
\* ------------------------------------------- the state of the two chunkers
\* TextChunker.chunk_text and HandwritingProcessor._chunk_text, one call
VARIABLES
    ck_pc,          \* "idle", "call", "loop", "done"
    ck_kind,        \* "pdf" for TextChunker, "hw" for HandwritingProcessor
    ck_chunk_size,  \* self.chunk_size
    ck_overlap,     \* self.overlap
    ck_text,        \* the text passed in
    ck_page,        \* page_number (TextChunker only)
    ck_norm,        \* the text the loop slides over
    ck_start,       \* start
    ck_index,       \* chunk_index / index
    ck_chunks,      \* chunks, and the value returned once ck_pc = "done"
    \* history, read by the properties only
    ck_starts,      \* the window starts examined so far
    ck_spins        \* iterations that did not advance the start

chunkVars == <<ck_pc, ck_kind, ck_chunk_size, ck_overlap, ck_text, ck_page, ck_norm,
               ck_start, ck_index, ck_chunks, ck_starts, ck_spins>>

\* no call of a chunker is in progress
ChunkIdle ==
    /\ ck_pc = "idle"
    /\ ck_kind = "pdf"
    /\ ck_chunk_size = 1
    /\ ck_overlap = 0
    /\ ck_text = <<>>
    /\ ck_page = 1
    /\ ck_norm = <<>>
    /\ ck_start = 0
    /\ ck_index = 0
    /\ ck_chunks = <<>>
    /\ ck_starts = <<>>
    /\ ck_spins = 0

\* ------------------------------ the state of one call of generate_embeddings
VARIABLES
    em_pc,          \* "idle", "loop", "returned", "raised"
    em_texts,       \* texts
    em_batch_size,  \* batch_size
    em_i,           \* i, the start of the next batch
    em_all,         \* all_embeddings
    em_result,      \* the list handed to the caller, <<>> while none is
    \* history, read by the properties only
    em_calls,       \* the batch starts the provider was called with, in order
    em_failed       \* the provider failed on a batch

embedVars == <<em_pc, em_texts, em_batch_size, em_i, em_all, em_result, em_calls, em_failed>>

\* no call of generate_embeddings is in progress
EmbedIdle ==
    /\ em_pc = "idle"
    /\ em_texts = <<>>
    /\ em_batch_size = 1
    /\ em_i = 0
    /\ em_all = <<>>
    /\ em_result = <<>>
    /\ em_calls = <<>>
    /\ em_failed = FALSE

\* ----------------------------------- the state of one call of process_pdf
VARIABLES
    pp_pc,          \* "idle", "extract", "chunk", "embed", "upload",
                    \* "insert_document", "insert_chunks", "done", "raised"
    pp_raw,         \* the text of each page of the uploaded file
    pp_page_texts,  \* page_texts, page k at position k
    pp_all_chunks,  \* all_chunks
    pp_embeddings,  \* embeddings
    pp_i,           \* i of insert_chunks, the start of the next batch of rows
    pp_file,        \* the file is in the storage bucket
    pp_document,    \* the row of the documents table exists
    pp_rows         \* the rows of pdf_chunks of this document, in insertion order

pdfVars == <<pp_pc, pp_raw, pp_page_texts, pp_all_chunks, pp_embeddings, pp_i, pp_file,
             pp_document, pp_rows>>

\* no call of process_pdf is in progress
PdfIdle ==
    /\ pp_pc = "idle"
    /\ pp_raw = <<>>
    /\ pp_page_texts = <<>>
    /\ pp_all_chunks = <<>>
    /\ pp_embeddings = <<>>
    /\ pp_i = 0
    /\ pp_file = FALSE
    /\ pp_document = FALSE
    /\ pp_rows = <<>>

\* ------------- the store's tables and one retrieval of context for shapes
VARIABLES
    store,          \* handwriting_notes, typed_notes, pdf_canvas_links, chunk rows
    sr_pc,          \* "idle", "call", "respond", "streaming", "done", "error"
    sr_caller,      \* "search": search_context_for_shape_ids is called,
                    \* "fallback": get_context_for_shape_ids, "ask": ask_stream
    sr_shape_ids,   \* shape_ids / selected_shape_ids
    sr_limit,       \* the per-parent limits, by source kind
    sr_threshold,   \* threshold, in hundredths
    sr_result,      \* the list returned / selection_context_entries
    \* history, read by the properties only
    sr_path,        \* "none", "semantic", "fallback": the path that gave sr_result
    sr_gathered,    \* the hits of the three searches before the sort
    sr_fails,       \* the store lookups that raised
    sr_order,       \* the order in which the store returned each parent's rows
    sr_embed_failed \* generate_embeddings raised on the prompt

searchVars == <<store, sr_pc, sr_caller, sr_shape_ids, sr_limit, sr_threshold, sr_result,
                sr_path, sr_gathered, sr_fails, sr_order, sr_embed_failed>>

\* the parents of chunks: handwriting notes, PDF documents, a typed note
HwIds == {"h1", "h2"}
DocIds == {"d1", "d2"}
TypedIds == {"n1"}
ParentIds == HwIds \cup DocIds \cup TypedIds

EmptyStore ==
    [hw_notes |-> <<>>, typed_notes |-> <<>>, links |-> <<>>,
     chunks |-> [p \in ParentIds |-> <<>>]]

\* no retrieval is in progress
SearchIdle ==
    /\ store = EmptyStore
    /\ sr_pc = "idle"
    /\ sr_caller = "search"
    /\ sr_shape_ids = {}
    /\ sr_limit = [hw |-> 1, pdf |-> 1, typed |-> 1]
    /\ sr_threshold = 0
    /\ sr_result = <<>>
    /\ sr_path = "none"
    /\ sr_gathered = <<>>
    /\ sr_fails = {}
    /\ sr_order = [p \in ParentIds |-> <<>>]
    /\ sr_embed_failed = FALSE

\* ------------- handwriting notes: the upload and the background process_note
VARIABLES
    hn_status,      \* note id -> the status column of its row, "none" before the upload
    hn_pc,          \* note id -> where its process_note task stands
    hn_ocr_text,    \* note id -> the text _perform_ocr returned
    hn_chunks,      \* note id -> chunks of process_note
    hn_embeddings,  \* note id -> embeddings of process_note
    hn_i,           \* note id -> i of the insert loop of insert_handwriting_chunks
    hn_rows,        \* note id -> the rows of handwriting_chunks of the note
    hn_history,     \* history: note id -> the statuses written, in order
    hn_raised       \* history: note id -> the steps that raised, in order

noteVars == <<hn_status, hn_pc, hn_ocr_text, hn_chunks, hn_embeddings, hn_i, hn_rows,
              hn_history, hn_raised>>

NoteIds == {"n1", "n2"}

NoteIdle ==
    /\ hn_status = [n \in NoteIds |-> "none"]
    /\ hn_pc = [n \in NoteIds |-> "none"]
    /\ hn_ocr_text = [n \in NoteIds |-> <<>>]
    /\ hn_chunks = [n \in NoteIds |-> <<>>]
    /\ hn_embeddings = [n \in NoteIds |-> <<>>]
    /\ hn_i = [n \in NoteIds |-> 0]
    /\ hn_rows = [n \in NoteIds |-> <<>>]
    /\ hn_history = [n \in NoteIds |-> <<>>]
    /\ hn_raised = [n \in NoteIds |-> <<>>]

\* ------------- typed notes: the syncs of one frame, one after the other
VARIABLES
    ty_pc,           \* where the sync in progress stands, "idle" between syncs
    ty_shapes,       \* request.textShapes of the sync
    ty_chunk_texts,  \* chunk_texts of the sync
    ty_embeddings,   \* embeddings of the sync
    ty_i,            \* i of the insert loop of replace_typed_note_chunks
    ty_note,         \* the typed_notes row of the frame: <<>> or <<text_shapes>>
    ty_rows,         \* the typed_note_chunks rows of the note
    ty_response,     \* the response of the last ended sync
    ty_syncs,        \* history: the number of syncs received
    ty_before,       \* history: the rows when the sync began
    ty_calls,        \* history: calls of the sync to the provider and to replace
    ty_done          \* history: the row lists of the syncs that replaced with success

typedVars == <<ty_pc, ty_shapes, ty_chunk_texts, ty_embeddings, ty_i, ty_note, ty_rows,
               ty_response, ty_syncs, ty_before, ty_calls, ty_done>>

NoCalls == [embed |-> 0, replace |-> 0]
NoResponse == [status |-> 0, chunk_count |-> 0, warning |-> FALSE]

TypedIdle ==
    /\ ty_pc = "idle"
    /\ ty_shapes = <<>>
    /\ ty_chunk_texts = <<>>
    /\ ty_embeddings = <<>>
    /\ ty_i = 0
    /\ ty_note = <<>>
    /\ ty_rows = <<>>
    /\ ty_response = NoResponse
    /\ ty_syncs = 0
    /\ ty_before = <<>>
    /\ ty_calls = NoCalls
    /\ ty_done = {}

\* ------------- the pdf_canvas_links table under a sequence of operations
VARIABLES
    lk_links,   \* the rows of pdf_canvas_links
    lk_ops,     \* history: the number of operations made
    lk_prev,    \* history: the rows before the last operation
    lk_last     \* history: the last operation, its arguments and its outcome

linkVars == <<lk_links, lk_ops, lk_prev, lk_last>>

NoOp == [op |-> "none", shape_id |-> "", document_id |-> "", status |-> 0]

LinkIdle ==
    /\ lk_links = <<>>
    /\ lk_ops = 0
    /\ lk_prev = <<>>
    /\ lk_last = NoOp

\* the components added after the retrieval of context
restVars == <<noteVars, typedVars, linkVars>>
RestIdle == NoteIdle /\ TypedIdle /\ LinkIdle

\* the state of the components other than the ask_stream loop
others == <<chunkVars, embedVars, pdfVars, searchVars, restVars>>

OthersIdle == ChunkIdle /\ EmbedIdle /\ PdfIdle /\ SearchIdle /\ RestIdle

vars == <<pc, request, provider, messages, current_tool_call, tool_call_id,
          tool_call_round, tool_call_executed, last_finish_reason, events, stalled,
          turnsOpened, sent, toolsExecuted, consumed, callFrags, switched, calls,
          conflicted, lastExec, failedTurn, deltas, others>>

callHist == <<callFrags, switched, calls, conflicted>>

askVars == <<pc, request, provider, messages, current_tool_call, tool_call_id,
             tool_call_round, tool_call_executed, last_finish_reason, events, stalled,
             turnsOpened, sent, toolsExecuted, consumed, callHist, lastExec, failedTurn,
             deltas>>

\* what the steps of one component leave alone
notChunk == <<askVars, embedVars, pdfVars, searchVars, restVars>>
notEmbed == <<askVars, chunkVars, pdfVars, searchVars, restVars>>
notPdf == <<askVars, chunkVars, embedVars, searchVars, restVars>>
notSearch == <<chunkVars, embedVars, pdfVars, restVars>>
baseVars == <<askVars, chunkVars, embedVars, pdfVars, searchVars>>
notNote == <<baseVars, typedVars, linkVars>>
notTyped == <<baseVars, noteVars, linkVars>>
notLink == <<baseVars, noteVars, typedVars>>

max_tool_call_rounds == 10

Message(role, id, name, arguments, content) ==
    [role |-> role, tool_call_id |-> id, name |-> name, arguments |-> arguments,
     content |-> content]
Event(type, data) == [type |-> type, data |-> data]

\* a Python value is falsy when it is None or empty
Truthy(x) == x # None /\ x # ""

\* str.strip() of a function name
StripName(n) == IF n = " " THEN "" ELSE n

\* the messages built before the first turn
InitialMessages(req) ==
    <<Message("system", None, "", <<>>, "SYSTEM_PROMPT")>>
    \o (IF req.context THEN <<Message("system", None, "", <<>>, "context")>> ELSE <<>>)
    \o (IF req.selection THEN <<Message("system", None, "", <<>>, "selection")>> ELSE <<>>)
    \o <<Message("user", None, "", <<>>, "prompt")>>

\* as AccumulateSameId, but a later name replaces the one that is set
AccumulateSameIdOverwrites(call, d) ==
    [name |-> IF Truthy(d.name) THEN d.name ELSE call.name,
     arguments |-> call.arguments \o d.arguments]

\* the same-id branch: keep a name that is set, append the argument fragment
AccumulateSameId(call, d) ==
    [name |-> IF Truthy(d.name) /\ StripName(call.name) = "" THEN d.name ELSE call.name,
     arguments |-> call.arguments \o d.arguments]

\* as AccumulateNoId, but the fragment replaces the buffer ("=" for "+=")
AccumulateNoIdReplaces(call, d) ==
    [name |-> IF Truthy(d.name) /\ StripName(call.name) = "" THEN d.name ELSE call.name,
     arguments |-> IF d.arguments # <<>> THEN d.arguments ELSE call.arguments]

\* the no-id branch, for a call in progress
AccumulateNoId(call, d) ==
    [name |-> IF Truthy(d.name) /\ StripName(call.name) = "" THEN d.name ELSE call.name,
     arguments |-> call.arguments \o d.arguments]

\* as StartCall, but the buffer of the call in progress is kept
StartCallKeepsArguments(call, d) ==
    [name |-> IF Truthy(d.name) THEN d.name ELSE "",
     arguments |-> (IF call = <<>> THEN <<>> ELSE call[1].arguments) \o d.arguments]

\* a different id, or no call in progress (call is what is replaced): a new call
\* from this delta alone
StartCall(call, d) ==
    [name |-> IF Truthy(d.name) THEN d.name ELSE "", arguments |-> d.arguments]

\* one tool_call_delta applied to acc = [call, id]
ApplyDelta(acc, d) ==
    IF ~d.hasFunction THEN acc
    ELSE IF Truthy(d.id)
    THEN IF acc.call # <<>> /\ acc.id = d.id
         THEN [call |-> <<AccumulateSameId(acc.call[1], d)>>, id |-> acc.id]
         ELSE [call |-> <<StartCall(acc.call, d)>>, id |-> d.id]
    ELSE IF acc.call # <<>> /\ Truthy(acc.id)
         THEN [call |-> <<AccumulateNoId(acc.call[1], d)>>, id |-> acc.id]
         ELSE acc

\* for tool_call_delta in delta.tool_calls
RECURSIVE ApplyDeltas(_, _)
ApplyDeltas(acc, ds) ==
    IF ds = <<>> THEN acc ELSE ApplyDeltas(ApplyDelta(acc, Head(ds)), Tail(ds))

\* parse_tool_arguments: the members of the parsed object, <<>> for {}
parse_tool_arguments(call) ==
    IF Strip(call.arguments) = <<>> THEN <<>>
    ELSE IF JsonLoads(call.arguments).ok THEN JsonLoads(call.arguments).val
    ELSE <<>>

\* as Validate, without the tool's own required parameter
ValidateNoToolCheck(call) ==
    LET tool_name == StripName(call.name)
        raw_args == call.arguments
        tool_args == parse_tool_arguments(call)
    IN  IF tool_name = "" THEN "empty_name"
        ELSE IF raw_args # <<>> /\ Len(Strip(raw_args)) < 3 THEN "too_short"
        ELSE IF raw_args # <<>> /\ ~StartsWith(Strip(raw_args), "{") THEN "no_opening_brace"
        ELSE IF raw_args # <<>> /\ ~EndsWith(Strip(raw_args), "}") THEN "no_closing_brace"
        ELSE IF tool_args = <<>> /\ raw_args # <<>> /\ Strip(raw_args) # <<>>
        THEN "parse_failed"
        ELSE "ok"

\* the checks made at finish_reason "tool_calls", in the code's order
Validate(call) ==
    LET tool_name == StripName(call.name)
        raw_args == call.arguments
        tool_args == parse_tool_arguments(call)
    IN  IF tool_name = "" THEN "empty_name"
        ELSE IF raw_args # <<>> /\ Len(Strip(raw_args)) < 3 THEN "too_short"
        ELSE IF raw_args # <<>> /\ ~StartsWith(Strip(raw_args), "{") THEN "no_opening_brace"
        ELSE IF raw_args # <<>> /\ ~EndsWith(Strip(raw_args), "}") THEN "no_closing_brace"
        ELSE IF tool_args = <<>> /\ raw_args # <<>> /\ Strip(raw_args) # <<>>
        THEN "parse_failed"
        ELSE IF tool_name = "getImageSrc"
                /\ (tool_args = <<>> \/ ~DictGetTruthy(tool_args, AltText))
        THEN "no_altText"
        ELSE "ok"

\* the messages appended for an executed call
ToolMessages(id, call, image_url) ==
    <<Message("assistant", id, call.name, call.arguments, None),
      Message("tool", id, "", <<>>, IF image_url = None THEN "No image found" ELSE image_url)>>

\* as ContentEvents, but the text is kept back
ContentEventsHeld(content) == <<>>

\* the event yielded for a delta's content
ContentEvents(content) ==
    IF Truthy(content) THEN <<Event("content", content)>> ELSE <<>>

\* as WhileGuard, with <= for <
WhileGuardInclusive(round) == round <= max_tool_call_rounds

\* while tool_call_round < max_tool_call_rounds
WhileGuard(round) == round < max_tool_call_rounds

\* as LoopDecision, but a turn whose call was dropped is tried again
LoopDecisionRetries(executed, finish, call) ==
    IF executed THEN "continue"
    ELSE IF Truthy(finish) /\ finish # "tool_calls" THEN "break"
    ELSE IF finish = "tool_calls" /\ call = <<>> THEN "continue"
    ELSE "break"

\* as LoopDecision, with break for continue after an executed tool
LoopDecisionBreaks(executed, finish, call) == "break"

\* the decision after the stream of a turn: "continue" or "break"
LoopDecision(executed, finish, call) ==
    IF executed THEN "continue"
    ELSE IF Truthy(finish) /\ finish # "tool_calls" THEN "break"
    ELSE IF finish = "tool_calls" /\ call = <<>> THEN "break"
    ELSE "break"

\* as RequestMessages, but completion_params holds a copy made before the loop
RequestMessagesCopy(msgs) == InitialMessages(request)

\* the messages a turn is opened with: completion_params holds the list itself
RequestMessages(msgs) == msgs

\* ---------------------------------------------------------------- history
\* what the properties remember of the call in progress, kept beside the
\* accumulator: st = [acc, frags, switched, calls, conflicted]
TrackDelta(st, d) ==
    IF ~d.hasFunction THEN st
    ELSE IF Truthy(d.id) /\ (st.acc.call = <<>> \/ st.acc.id # d.id)
    THEN \* a call starts
         [acc |-> ApplyDelta(st.acc, d), frags |-> <<d.arguments>>,
          switched |-> st.acc.call # <<>>, calls |-> st.calls + 1, conflicted |-> FALSE]
    ELSE IF st.acc.call # <<>>
    THEN \* one more delta of the call in progress
         [acc |-> ApplyDelta(st.acc, d), frags |-> Append(st.frags, d.arguments),
          switched |-> st.switched, calls |-> st.calls,
          conflicted |-> st.conflicted
              \/ (/\ Truthy(d.name)
                  /\ StripName(st.acc.call[1].name) # ""
                  /\ d.name # StripName(st.acc.call[1].name))]
    ELSE \* a delta without id and no call in progress
         [st EXCEPT !.acc = ApplyDelta(st.acc, d)]

RECURSIVE TrackDeltas(_, _)
TrackDeltas(st, ds) ==
    IF ds = <<>> THEN st ELSE TrackDeltas(TrackDelta(st, Head(ds)), Tail(ds))

NoExec ==
    [round |-> 0, id |-> None, name |-> "", arguments |-> <<>>, finish |-> None,
     image_url |-> None, frags |-> <<>>, switched |-> FALSE]

\* ---------------------------------------------------------------- actions
Init ==
    /\ pc = "start"
    /\ request \in Requests
    /\ provider \in {"any", "calls"}
    /\ messages = <<>>
    /\ current_tool_call = <<>>
    /\ tool_call_id = None
    /\ tool_call_round = 0
    /\ tool_call_executed = FALSE
    /\ last_finish_reason = None
    /\ events = <<>>
    /\ stalled = FALSE
    /\ turnsOpened = 0
    /\ sent = <<>>
    /\ toolsExecuted = 0
    /\ consumed = <<>>
    /\ callFrags = <<>>
    /\ switched = FALSE
    /\ calls = 0
    /\ conflicted = FALSE
    /\ lastExec = NoExec
    /\ failedTurn = 0
    /\ deltas = 0
    /\ OthersIdle

\* the generator up to the while loop: the messages, the context_entries event
Start ==
    /\ pc = "start"
    /\ messages' = InitialMessages(request)
    /\ events' = IF request.selection THEN <<Event("context_entries", "")>> ELSE <<>>
    /\ pc' = "loop"
    /\ UNCHANGED <<others, request, provider, current_tool_call, tool_call_id, tool_call_round,
                   tool_call_executed, last_finish_reason, stalled, turnsOpened, sent, toolsExecuted,
                   consumed, callHist, lastExec, failedTurn, deltas>>

\* the loop head and the opening of a provider turn
OpenTurn ==
    /\ pc = "loop"
    /\ WhileGuard(tool_call_round)
    /\ tool_call_round' = tool_call_round + 1
    /\ turnsOpened' = turnsOpened + 1
    /\ sent' = RequestMessages(messages)
    /\ tool_call_executed' = FALSE
    /\ last_finish_reason' = None
    /\ pc' = "stream"
    /\ UNCHANGED <<others, request, provider, messages, current_tool_call, tool_call_id, events,
                   stalled, toolsExecuted, consumed, callHist, lastExec, failedTurn, deltas>>

\* client.chat.completions.create raises: the outer handler reports it
OpenTurnFails ==
    /\ pc = "loop"
    /\ provider = "any"
    /\ WhileGuard(tool_call_round)
    /\ tool_call_round' = tool_call_round + 1
    /\ turnsOpened' = turnsOpened + 1
    /\ sent' = RequestMessages(messages)
    /\ events' = Append(events, Event("error", "create"))
    /\ pc' = "closed"
    /\ UNCHANGED <<others, request, provider, messages, current_tool_call, tool_call_id,
                   tool_call_executed, last_finish_reason, stalled, toolsExecuted, consumed, callHist,
                   lastExec, failedTurn, deltas>>

\* the while condition is false: the round cap is reached
LoopExit ==
    /\ pc = "loop"
    /\ ~WhileGuard(tool_call_round)
    /\ pc' = "exit"
    /\ UNCHANGED <<others, request, provider, messages, current_tool_call, tool_call_id,
                   tool_call_round, tool_call_executed, last_finish_reason, events, stalled,
                   turnsOpened, sent, toolsExecuted, consumed, callHist, lastExec, failedTurn, deltas>>

\* what the provider may deliver next.  A finish reason is the last thing a turn
\* says about its choice: after it only chunks without choices follow.
ProviderSends(ch) ==
    IF provider = "calls" THEN ch \in ValidCallChunks
    ELSE /\ ch \in Chunks
         /\ deltas < MaxDeltas
         /\ ch.choices => last_finish_reason = None
         /\ ch.content \in Texts => Len(consumed) < MaxContent
         /\ LET acc == ApplyDeltas([call |-> current_tool_call, id |-> tool_call_id],
                                   ch.tool_calls)
            IN  acc.call # <<>> => Len(acc.call[1].arguments) <= MaxArgLen

\* one iteration of "async for chunk in stream"
ConsumeChunk(ch) ==
    /\ pc = "stream"
    /\ ~stalled
    /\ ProviderSends(ch)
    /\ deltas' = deltas + 1
    /\ UNCHANGED <<others, request, provider, tool_call_round, stalled, turnsOpened, sent>>
    /\ IF ~ch.choices
       THEN UNCHANGED <<pc, messages, current_tool_call, tool_call_id, tool_call_executed,
                        last_finish_reason, events, toolsExecuted, consumed, callHist, lastExec,
                        failedTurn>>
       ELSE LET st == TrackDeltas([acc |-> [call |-> current_tool_call, id |-> tool_call_id],
                                   frags |-> callFrags, switched |-> switched,
                                   calls |-> calls, conflicted |-> conflicted],
                                  ch.tool_calls)
                acc == ApplyDeltas([call |-> current_tool_call, id |-> tool_call_id],
                                   ch.tool_calls)
                finish_reason == ch.finish_reason
                ev == events \o ContentEvents(ch.content)
            IN  /\ last_finish_reason' =
                       IF Truthy(finish_reason) THEN finish_reason ELSE last_finish_reason
                /\ consumed' =
                       IF ch.content \in Texts THEN Append(consumed, ch.content) ELSE consumed
                /\ calls' = st.calls
                /\ IF finish_reason = "tool_calls" /\ acc.call # <<>>
                   THEN IF Validate(acc.call[1]) # "ok"
                        THEN \* the call is dropped, the stream is read on
                             /\ current_tool_call' = <<>>
                             /\ tool_call_id' = None
                             /\ events' = ev
                             /\ failedTurn' = tool_call_round
                             /\ callFrags' = <<>>
                             /\ switched' = FALSE
                             /\ conflicted' = FALSE
                             /\ UNCHANGED <<pc, messages, tool_call_executed,
                                            toolsExecuted, lastExec>>
                        ELSE IF StripName(acc.call[1].name) = "getImageSrc"
                        THEN \* the thinking event, the search, the two messages, break
                             \E image_url \in ToolResults :
                                 /\ events' = Append(ev, Event("thinking", ""))
                                 /\ toolsExecuted' = toolsExecuted + 1
                                 /\ messages' = messages
                                        \o ToolMessages(acc.id, acc.call[1], image_url)
                                 /\ lastExec' =
                                        [round |-> tool_call_round, id |-> acc.id,
                                         name |-> acc.call[1].name,
                                         arguments |-> acc.call[1].arguments,
                                         finish |-> finish_reason,
                                         image_url |-> image_url, frags |-> st.frags,
                                         switched |-> st.switched]
                                 /\ tool_call_executed' = TRUE
                                 /\ current_tool_call' = <<>>
                                 /\ tool_call_id' = None
                                 /\ callFrags' = <<>>
                                 /\ switched' = FALSE
                                 /\ conflicted' = FALSE
                                 /\ pc' = "after"
                                 /\ UNCHANGED failedTurn
                        ELSE \* another tool: the thinking event and nothing else
                             /\ events' = Append(ev, Event("thinking", ""))
                             /\ current_tool_call' = acc.call
                             /\ tool_call_id' = acc.id
                             /\ callFrags' = st.frags
                             /\ switched' = st.switched
                             /\ conflicted' = st.conflicted
                             /\ UNCHANGED <<pc, messages, tool_call_executed,
                                            toolsExecuted, lastExec, failedTurn>>
                   ELSE /\ events' = ev
                        /\ current_tool_call' = acc.call
                        /\ tool_call_id' = acc.id
                        /\ callFrags' = st.frags
                        /\ switched' = st.switched
                        /\ conflicted' = st.conflicted
                        /\ UNCHANGED <<pc, messages, tool_call_executed, toolsExecuted,
                                       lastExec, failedTurn>>

\* the stream of the turn ends
StreamEnd ==
    /\ pc = "stream"
    /\ ~stalled
    /\ provider = "any"
    /\ pc' = "after"
    /\ UNCHANGED <<others, request, provider, messages, current_tool_call, tool_call_id,
                   tool_call_round, tool_call_executed, last_finish_reason, events, stalled,
                   turnsOpened, sent, toolsExecuted, consumed, callHist, lastExec, failedTurn, deltas>>

\* the stream raises: asyncio.TimeoutError or any other exception; the error
\* event, then break out of the while loop
StreamRaises(kind) ==
    /\ pc = "stream"
    /\ ~stalled
    /\ provider = "any"
    /\ events' = Append(events, Event("error", kind))
    /\ pc' = "exit"
    /\ UNCHANGED <<others, request, provider, messages, current_tool_call, tool_call_id,
                   tool_call_round, tool_call_executed, last_finish_reason, stalled, turnsOpened, sent,
                   toolsExecuted, consumed, callHist, lastExec, failedTurn, deltas>>

\* the provider stalls: it delivers nothing more, does not end and does not fail
Stall ==
    /\ pc = "stream"
    /\ ~stalled
    /\ provider = "any"
    /\ stalled' = TRUE
    /\ UNCHANGED <<others, pc, request, provider, messages, current_tool_call, tool_call_id,
                   tool_call_round, tool_call_executed, last_finish_reason, events, turnsOpened, sent,
                   toolsExecuted, consumed, callHist, lastExec, failedTurn, deltas>>

\* after the stream of a turn: continue with a new turn or leave the loop
AfterStream ==
    /\ pc = "after"
    /\ pc' = IF LoopDecision(tool_call_executed, last_finish_reason, current_tool_call)
                 = "continue"
             THEN "loop" ELSE "exit"
    /\ UNCHANGED <<others, request, provider, messages, current_tool_call, tool_call_id,
                   tool_call_round, tool_call_executed, last_finish_reason, events, stalled,
                   turnsOpened, sent, toolsExecuted, consumed, callHist, lastExec, failedTurn, deltas>>

\* yield "data: [DONE]"
EmitDone ==
    /\ pc = "exit"
    /\ events' = Append(events, Event("done", ""))
    /\ pc' = "closed"
    /\ UNCHANGED <<others, request, provider, messages, current_tool_call, tool_call_id,
                   tool_call_round, tool_call_executed, last_finish_reason, stalled, turnsOpened, sent,
                   toolsExecuted, consumed, callHist, lastExec, failedTurn, deltas>>

Next ==
    \/ Start
    \/ OpenTurn
    \/ OpenTurnFails
    \/ LoopExit
    \/ \E ch \in Chunks \cup ValidCallChunks : ConsumeChunk(ch)
    \/ StreamEnd
    \/ \E kind \in {"timeout", "error"} : StreamRaises(kind)
    \/ Stall
    \/ AfterStream
    \/ EmitDone

Spec == Init /\ [][Next]_vars

\* the steps the generator takes by itself; a chunk, the end of a stream and an
\* exception are the provider's to deliver
ProgramStep == Start \/ OpenTurn \/ LoopExit \/ AfterStream \/ EmitDone

\* the event loop runs the generator whenever it can take a step
FairSpec == Spec /\ WF_vars(ProgramStep)

\* ------------------------------------------------------------- properties
IsContent(e) == e.type = "content"
NoErrorEvent == \A i \in 1..Len(events) : events[i].type # "error"
EndsWithDone == events # <<>> /\ events[Len(events)].type = "done"
\* b is a with content events added at its end, and nothing else
OnlyContentAdded(a, b) ==
    /\ Len(b) >= Len(a)
    /\ SubSeq(b, 1, Len(a)) = a
    /\ \A i \in (Len(a) + 1)..Len(b) : b[i].type = "content"

\* C1: no request opens more than 10 provider turns; with a provider whose
\* every turn ends with a valid getImageSrc call the loop opens exactly 10
\* turns, executes exactly 10 tools and ends with [DONE] and no error event.
C1_RoundCap ==
    /\ turnsOpened <= 10
    /\ (provider = "calls" /\ pc = "closed") =>
           /\ turnsOpened = 10
           /\ toolsExecuted = 10
           /\ EndsWithDone
           /\ NoErrorEvent
C1_Witness == provider = "calls" /\ pc = "closed" /\ toolsExecuted = 10

\* what the claim C2 asks of a call before search_image is invoked for it
ValidForSearch(name, arguments) ==
    /\ name # ""
    /\ Len(Strip(arguments)) >= 3
    /\ StartsWith(Strip(arguments), "{")
    /\ EndsWith(Strip(arguments), "}")
    /\ JsonLoads(arguments).ok
    /\ DictGetTruthy(JsonLoads(arguments).val, AltText)

\* C2: search_image is invoked only at the finish signal "tool_calls" and only
\* for a call with a non-empty name whose argument string has a trimmed length
\* of at least 3, begins with "{", ends with "}", parses as an object and
\* has a non-empty altText.
C2_ToolOnlyWhenValid ==
    /\ toolsExecuted > 0 =>
           /\ lastExec.finish = "tool_calls"
           /\ ValidForSearch(lastExec.name, lastExec.arguments)
    /\ \A i \in 1..Len(messages) :
           messages[i].role = "assistant" =>
               ValidForSearch(messages[i].name, messages[i].arguments)
C2_Witness ==
    /\ provider = "any"
    /\ toolsExecuted > 0
    /\ Len(lastExec.frags) = 3
    /\ lastExec.arguments # Strip(lastExec.arguments)

\* C3: a call that fails validation at the finish signal is dropped in that
\* step: no tool runs, no thinking and no error event is emitted, the
\* accumulator is Idle; and the turn in which it happened is the last one: no
\* provider turn is opened and no tool is executed afterwards.
C3_FailedValidationDiscards ==
    [][/\ failedTurn' # failedTurn =>
            /\ toolsExecuted' = toolsExecuted
            /\ OnlyContentAdded(events, events')
            /\ current_tool_call' = <<>>
            /\ tool_call_id' = None
            /\ messages' = messages
       /\ failedTurn > 0 =>
            /\ turnsOpened' = turnsOpened
            /\ toolsExecuted' = toolsExecuted
            /\ current_tool_call' = <<>>
            /\ \A i \in (Len(events) + 1)..Len(events') : events'[i].type # "thinking"
            /\ pc' # "loop"]_vars
C3_Witness == failedTurn > 0 /\ pc = "closed" /\ EndsWithDone /\ NoErrorEvent

\* C4: after a round a new provider turn is opened exactly when the round
\* executed a tool and fewer than 10 rounds have run; a round without an
\* executed tool whose finish signal is not "tool_calls" leaves the loop, and
\* the stream is closed with [DONE].
C4_NextTurnIffToolExecuted ==
    [][/\ pc = "after" => (pc' = "loop" <=> tool_call_executed)
       /\ (pc = "after" /\ pc' # "loop") => pc' = "exit"
       /\ (turnsOpened' # turnsOpened /\ turnsOpened > 0) =>
              /\ tool_call_executed
              /\ turnsOpened < 10
              /\ turnsOpened' = turnsOpened + 1
       /\ (pc = "loop" /\ turnsOpened > 0) =>
              (turnsOpened' = turnsOpened + 1 <=> turnsOpened < 10)
       /\ (pc = "loop" /\ turnsOpened' = turnsOpened) => pc' = "exit"
       /\ pc = "exit" =>
              /\ events' = Append(events, Event("done", ""))
              /\ pc' = "closed"]_vars
C4_Witness ==
    /\ pc = "closed"
    /\ turnsOpened = 2
    /\ toolsExecuted = 1
    /\ last_finish_reason \in {"stop", "length"}
    /\ EndsWithDone
    /\ NoErrorEvent

\* C5: an executed tool call appends exactly two messages, the assistant
\* message with the call's id, name and raw argument string and then the tool
\* message with the same id and the tool's output ("No image found" for None);
\* no further chunk of that turn is consumed, and the next turn is opened with
\* the list of the turn before extended by exactly those two messages.
C5_ToolMessagesAppended ==
    [][/\ toolsExecuted' # toolsExecuted =>
            /\ messages' = messages \o
                   <<Message("assistant", lastExec'.id, lastExec'.name,
                             lastExec'.arguments, None),
                     Message("tool", lastExec'.id, "", <<>>,
                             IF lastExec'.image_url = None THEN "No image found"
                             ELSE lastExec'.image_url)>>
            /\ lastExec'.arguments = Flatten(lastExec'.frags)
            /\ Truthy(lastExec'.id)
            /\ tool_call_executed'
       /\ (messages' # messages /\ pc # "start") => toolsExecuted' = toolsExecuted + 1
       /\ tool_call_executed => deltas' = deltas
       /\ (turnsOpened' # turnsOpened /\ turnsOpened > 0) =>
            /\ Len(messages) >= 2
            /\ sent' = sent \o SubSeq(messages, Len(messages) - 1, Len(messages))]_vars
C5_Witness ==
    /\ provider = "any"
    /\ pc = "stream"
    /\ turnsOpened = 2
    /\ lastExec.image_url = None
    /\ Len(sent) = Len(InitialMessages(request)) + 2

\* the data of the events in es
RECURSIVE DataOf(_)
DataOf(es) == IF es = <<>> THEN <<>> ELSE <<Head(es).data>> \o DataOf(Tail(es))

\* C6: at every moment the content events delivered so far are the content
\* deltas consumed so far, in the same order, over all rounds: each text is
\* emitted in the step that consumes it.
C6_ContentForwarded == DataOf(SelectSeq(events, IsContent)) = consumed
C6_Witness ==
    /\ pc = "stream"
    /\ tool_call_round = 2
    /\ consumed = <<"c2", "c1">>
    /\ last_finish_reason = None

C8_ArgumentsConcatenated ==
    /\ current_tool_call # <<>> => current_tool_call[1].arguments = Flatten(callFrags)
    /\ current_tool_call = <<>> => callFrags = <<>>
    /\ toolsExecuted > 0 => lastExec.arguments = Flatten(lastExec.frags)
\* a call executed with {"a":"b"} that arrived cut inside the string "b"
C8_Witness ==
    /\ provider = "any"
    /\ lastExec.frags = <<FragA, FragB>>
    /\ lastExec.arguments = FragFull

\* C9 as stated: once the name of the call in progress is non-empty, no later
\* delta of that call changes it.
C9_NameNeverChanges ==
    [][(/\ calls' = calls
        /\ current_tool_call # <<>>
        /\ current_tool_call' # <<>>
        /\ current_tool_call[1].name # "") =>
            current_tool_call'[1].name = current_tool_call[1].name]_vars

\* C9 amended: once the name of the call in progress is non-empty after
\* trimming white space, no later delta of that call changes it.
C9_SetNameNeverChanges ==
    [][(/\ calls' = calls
        /\ current_tool_call # <<>>
        /\ current_tool_call' # <<>>
        /\ StripName(current_tool_call[1].name) # "") =>
            current_tool_call'[1].name = current_tool_call[1].name]_vars
C9_Witness ==
    /\ conflicted
    /\ current_tool_call # <<>>
    /\ current_tool_call[1].name = "getImageSrc"

\* C10: a turn that stalls is terminated: the stream of events closes.
C10_StalledTurnTerminated == stalled ~> (pc = "closed")

\* ====================================================================
\* The two chunkers (backend/pdf_processor.py): TextChunker.chunk_text
\* and HandwritingProcessor._chunk_text, one loop iteration per step.
\* A text is a sequence of one-character strings, " " or "x".
\* ====================================================================

\* a window is kept by TextChunker when its stripped length exceeds this
MinChunkLen == 50

\* iterations of one call that do not advance the start (such a call
\* never returns, the model follows it this far)
MaxSpins == 3

Run(c, n) == [i \in 1..n |-> c]

\* the texts passed to the chunkers: blanks, a word, blanks, a word, blanks
TextShapes == [lead : {0, 2}, a : {0, 3, 55}, gap : {0, 3}, b : {0, 60}, trail : {0, 1}]
TextOf(sh) ==
    Run(Space, sh.lead) \o Run("x", sh.a) \o Run(Space, sh.gap) \o Run("x", sh.b)
        \o Run(Space, sh.trail)
LongText == Run("x", 2300)
ChunkSizes == {1, 3, 52, 60, 1000}
Overlaps == {0, 1, 3, 8, 200}
Pages == {1, 2}

\* a slice bound as Python reads it in a string of length n
PyIndex(i, n) == IF i < 0 THEN (IF i + n < 0 THEN 0 ELSE i + n) ELSE (IF i > n THEN n ELSE i)
\* s[a:b]
PySlice(s, a, b) == SubSeq(s, PyIndex(a, Len(s)) + 1, PyIndex(b, Len(s)))

FirstSpace(s) ==
    IF \E i \in 1..Len(s) : s[i] = Space
    THEN CHOOSE i \in 1..Len(s) : s[i] = Space /\ \A j \in 1..(i - 1) : s[j] # Space
    ELSE Len(s) + 1

\* " ".join(text.split())
RECURSIVE JoinSplit(_)
JoinSplit(s) ==
    LET t == LStrip(s)
        e == FirstSpace(t)
        rest == JoinSplit(SubSeq(t, e, Len(t)))
    IN  IF t = <<>> THEN <<>>
        ELSE IF rest = <<>> THEN SubSeq(t, 1, e - 1)
        ELSE SubSeq(t, 1, e - 1) \o <<Space>> \o rest

\* TextChunker: the window at start, whether it is kept, the next start
PdfWindow(text, start, size) == PySlice(text, start, start + size)
PdfKeeps(window) == Len(Strip(window)) > MinChunkLen
PdfNextStartNoOverlap(start, size, overlap) == start + size
PdfNextStart(start, size, overlap) == start + (size - overlap)
PdfChunk(window, page, index, start, size) ==
    [text |-> window, page_number |-> page, chunk_index |-> index, char_start |-> start,
     char_end |-> start + size]

\* HandwritingProcessor: the window's end, whether it is kept, the next start
Min(a, b) == IF a < b THEN a ELSE b
Max(a, b) == IF a < b THEN b ELSE a
HwEndUnclamped(text, start, size) == start + size
HwEnd(text, start, size) == Min(Len(text), start + size)
HwKeeps(window) == Strip(window) # <<>>
HwNextStart(start, end, overlap) ==
    LET next_start == Max(0, end - overlap)
    IN  IF next_start <= start THEN end ELSE next_start
HwChunk(window, index, start, end) ==
    [chunk_index |-> index, text |-> window, char_start |-> start, char_end |-> end]

\* no request is in progress in ask_stream
AskIdle ==
    /\ pc = "idle"
    /\ request = [context |-> FALSE, selection |-> FALSE]
    /\ provider = "any"
    /\ messages = <<>>
    /\ current_tool_call = <<>>
    /\ tool_call_id = None
    /\ tool_call_round = 0
    /\ tool_call_executed = FALSE
    /\ last_finish_reason = None
    /\ events = <<>>
    /\ stalled = FALSE
    /\ turnsOpened = 0
    /\ sent = <<>>
    /\ toolsExecuted = 0
    /\ consumed = <<>>
    /\ callFrags = <<>>
    /\ switched = FALSE
    /\ calls = 0
    /\ conflicted = FALSE
    /\ lastExec = NoExec
    /\ failedTurn = 0
    /\ deltas = 0

\* a chunker is called with some text, window size and overlap
ChunkStart ==
    /\ ck_pc = "call"
    /\ ck_kind \in {"pdf", "hw"}
    /\ ck_chunk_size \in ChunkSizes
    /\ ck_overlap \in Overlaps
    /\ \/ ck_text \in {TextOf(sh) : sh \in TextShapes}
       \/ ck_text = LongText /\ ck_kind = "pdf" /\ ck_chunk_size = 1000
    /\ ck_page \in (IF ck_kind = "pdf" THEN Pages ELSE {1})
    /\ ck_norm = <<>>
    /\ ck_start = 0
    /\ ck_index = 0
    /\ ck_chunks = <<>>
    /\ ck_starts = <<>>
    /\ ck_spins = 0

\* up to the while loop
ChunkCall ==
    /\ ck_pc = "call"
    /\ ck_norm' = IF ck_kind = "hw" THEN JoinSplit(ck_text) ELSE ck_text
    /\ ck_pc' = IF ck_kind = "hw" /\ ck_norm' = <<>> THEN "done" ELSE "loop"
    /\ UNCHANGED <<ck_kind, ck_chunk_size, ck_overlap, ck_text, ck_page, ck_start, ck_index,
                   ck_chunks, ck_starts, ck_spins, notChunk>>

\* TextChunker.chunk_text: the loop test and one iteration, or the return
PdfStep ==
    /\ ck_pc = "loop"
    /\ ck_kind = "pdf"
    /\ IF ck_start < Len(ck_norm)
       THEN LET window == PdfWindow(ck_norm, ck_start, ck_chunk_size)
                next == PdfNextStart(ck_start, ck_chunk_size, ck_overlap)
            IN  /\ next > ck_start \/ ck_spins < MaxSpins
                /\ IF PdfKeeps(window)
                   THEN /\ ck_chunks' = Append(ck_chunks,
                               PdfChunk(window, ck_page, ck_index, ck_start, ck_chunk_size))
                        /\ ck_index' = ck_index + 1
                   ELSE UNCHANGED <<ck_chunks, ck_index>>
                /\ ck_start' = next
                /\ ck_starts' = Append(ck_starts, ck_start)
                /\ ck_spins' = IF next > ck_start THEN ck_spins ELSE ck_spins + 1
                /\ UNCHANGED ck_pc
       ELSE /\ ck_pc' = "done"
            /\ UNCHANGED <<ck_start, ck_index, ck_chunks, ck_starts, ck_spins>>
    /\ UNCHANGED <<ck_kind, ck_chunk_size, ck_overlap, ck_text, ck_page, ck_norm, notChunk>>

\* HandwritingProcessor._chunk_text: the loop test and one iteration, or the
\* return (with the whole text as one chunk when no window was kept)
HwStep ==
    /\ ck_pc = "loop"
    /\ ck_kind = "hw"
    /\ LET whole == <<HwChunk(ck_norm, 0, 0, Len(ck_norm))>>
       IN  IF ck_start < Len(ck_norm)
           THEN LET end == HwEnd(ck_norm, ck_start, ck_chunk_size)
                    window == PySlice(ck_norm, ck_start, end)
                    kept == IF HwKeeps(window)
                            THEN Append(ck_chunks, HwChunk(window, ck_index, ck_start, end))
                            ELSE ck_chunks
                    next == HwNextStart(ck_start, end, ck_overlap)
                IN  /\ ck_index' = IF HwKeeps(window) THEN ck_index + 1 ELSE ck_index
                    /\ ck_starts' = Append(ck_starts, ck_start)
                    /\ IF end = Len(ck_norm)
                       THEN /\ ck_pc' = "done"
                            /\ ck_chunks' = IF kept # <<>> THEN kept ELSE whole
                            /\ UNCHANGED <<ck_start, ck_spins>>
                       ELSE /\ next > ck_start \/ ck_spins < MaxSpins
                            /\ ck_start' = next
                            /\ ck_chunks' = kept
                            /\ ck_spins' = IF next > ck_start THEN ck_spins ELSE ck_spins + 1
                            /\ UNCHANGED ck_pc
           ELSE /\ ck_pc' = "done"
                /\ ck_chunks' = IF ck_chunks # <<>> THEN ck_chunks ELSE whole
                /\ UNCHANGED <<ck_start, ck_index, ck_starts, ck_spins>>
    /\ UNCHANGED <<ck_kind, ck_chunk_size, ck_overlap, ck_text, ck_page, ck_norm, notChunk>>

InitChunk == AskIdle /\ ChunkStart /\ EmbedIdle /\ PdfIdle /\ SearchIdle /\ RestIdle

NextChunk == ChunkCall \/ PdfStep \/ HwStep

SpecChunk == InitChunk /\ [][NextChunk]_vars

\* ------------------------------------------------- properties, chunkers

\* the window starts 0, W-O, 2(W-O), ... below len
ContractStarts(len, size, overlap) ==
    LET step == size - overlap
    IN  [k \in 1..((len + step - 1) \div step) |-> (k - 1) * step]

\* the windows of text at the given starts, cut at the end of the text
WindowAt(text, s, size) == SubSeq(text, s + 1, Min(s + size, Len(text)))

\* chunks are the windows of text at the starts ss, numbered from 0
ChunksAre(chunks, text, ss, size) ==
    /\ Len(chunks) = Len(ss)
    /\ \A i \in 1..Len(ss) :
           /\ chunks[i].char_start = ss[i]
           /\ chunks[i].chunk_index = i - 1
           /\ chunks[i].text = WindowAt(text, ss[i], size)

\* C11: both chunkers strictly advance the window start on every iteration
\* that goes on to another one, for every window size and every overlap, so
\* a call returns after finitely many iterations.
C11_ChunkingAdvances ==
    [][ck_pc = "loop" /\ ck_pc' = "loop" => ck_start' > ck_start]_vars

PdfKeptAt(s) == Len(Strip(WindowAt(ck_text, s, ck_chunk_size))) > MinChunkLen

\* C12: with overlap below the window size, TextChunker.chunk_text examines
\* exactly the windows at 0, W-O, 2(W-O), ... below the text length and
\* returns exactly those whose stripped length exceeds 50; for W = 1000,
\* O = 200 and 2300 characters the starts are 0, 800, 1600 and the last
\* window, 700 characters long, is kept.
C12_PdfWindows ==
    (ck_kind = "pdf" /\ ck_pc = "done" /\ ck_overlap < ck_chunk_size) =>
        LET ss == ContractStarts(Len(ck_text), ck_chunk_size, ck_overlap)
        IN  /\ ck_starts = ss
            /\ ChunksAre(ck_chunks, ck_text, SelectSeq(ss, PdfKeptAt), ck_chunk_size)
            /\ (ck_chunk_size = 1000 /\ ck_overlap = 200 /\ Len(ck_text) = 2300) =>
                   /\ ck_starts = <<0, 800, 1600>>
                   /\ ck_chunks # <<>>
                   /\ ck_chunks[Len(ck_chunks)].char_start = 1600
                   /\ Len(ck_chunks[Len(ck_chunks)].text) = 700

C12_Witness ==
    /\ ck_kind = "pdf" /\ ck_pc = "done"
    /\ ck_chunk_size = 1000 /\ ck_overlap = 200 /\ Len(ck_text) = 2300
    /\ Len(ck_chunks) = 3

HwKeptAt(s) == Strip(WindowAt(ck_norm, s, ck_chunk_size)) # <<>>

\* C13 as stated: with overlap below the window size,
\* HandwritingProcessor._chunk_text examines a window at every start 0, W-O,
\* 2(W-O), ... below the length of the normalized text, and returns those
\* with non-empty stripped content.
C13_HwSameStartsAsContract ==
    (ck_kind = "hw" /\ ck_pc = "done" /\ ck_overlap < ck_chunk_size) =>
        LET ss == ContractStarts(Len(ck_norm), ck_chunk_size, ck_overlap)
        IN  /\ ck_starts = ss
            /\ ChunksAre(ck_chunks, ck_norm, SelectSeq(ss, HwKeptAt), ck_chunk_size)

\* the starts 0, W-O, 2(W-O), ... up to the first whose window reaches the
\* end of the text
StartsUntilEnd(len, size, overlap) ==
    LET ss == ContractStarts(len, size, overlap)
        reaches(k) == ss[k] + size >= len
    IN  IF len = 0 THEN <<>>
        ELSE SubSeq(ss, 1, CHOOSE k \in 1..Len(ss) :
                               reaches(k) /\ \A j \in 1..(k - 1) : ~reaches(j))

\* C13, amended: with overlap below the window size,
\* HandwritingProcessor._chunk_text examines the windows at 0, W-O, 2(W-O),
\* ... only up to the first window that reaches the end of the normalized
\* text, and returns those of them with non-empty stripped content; later
\* starts below the length get no window.
C13_HwStartsUntilEnd ==
    (ck_kind = "hw" /\ ck_pc = "done" /\ ck_overlap < ck_chunk_size) =>
        LET ss == StartsUntilEnd(Len(ck_norm), ck_chunk_size, ck_overlap)
        IN  /\ ck_starts = ss
            /\ ChunksAre(ck_chunks, ck_norm, SelectSeq(ss, HwKeptAt), ck_chunk_size)

C13_Witness ==
    /\ ck_kind = "hw" /\ ck_pc = "done" /\ ck_overlap < ck_chunk_size
    /\ ck_overlap > 0
    /\ Len(ck_starts) > 1
    /\ Len(ck_starts) < Len(ContractStarts(Len(ck_norm), ck_chunk_size, ck_overlap))
    /\ ck_norm # ck_text

\* ====================================================================
\* EmbeddingGenerator.generate_embeddings (backend/pdf_processor.py),
\* one batch per step.  A text is a name; the provider's vector for
\* the text t is the record [of |-> t].
\* ====================================================================

\* texts in one call
MaxTexts == 3
\* largest batch_size
MaxBatch == 3

EmbedTexts == {"t1", "t2", "t3"}
TextLists == UNION {[1..n -> EmbedTexts] : n \in 0..MaxTexts}
BatchSizes == 1..MaxBatch

Embedding(t) == [of |-> t]

\* the orders in which a sequence can be rearranged
Bijections(n) == {p \in [1..n -> 1..n] : \A i, j \in 1..n : p[i] = p[j] => i = j}
Rearrangements(data) == {[k \in 1..Len(data) |-> data[p[k]]] : p \in Bijections(Len(data))}

\* response.data for a batch: one item per text, tagged with the text's
\* index in the batch, in an order of the provider's choosing
TaggedItems(batch) == [k \in 1..Len(batch) |-> [index |-> k - 1, embedding |-> Embedding(batch[k])]]
Responses(batch) == Rearrangements(TaggedItems(batch))

\* sorted(response.data, key=lambda x: x.index)
SortedByIndex(data) ==
    CHOOSE s \in Rearrangements(data) :
        \A a, b \in 1..Len(s) : a < b => s[a].index <= s[b].index

\* [item.embedding for item in sorted(response.data, key=lambda x: x.index)]
BatchEmbeddingsUnsorted(data) == [k \in 1..Len(data) |-> data[k].embedding]
BatchEmbeddings(data) == [k \in 1..Len(data) |-> SortedByIndex(data)[k].embedding]

\* the except branch: log and raise, out of the loop and out of the call
AfterEmbedErrorNextBatch(i, batch_size) == [pc |-> "loop", i |-> i + batch_size]
AfterEmbedError(i, batch_size) == [pc |-> "raised", i |-> i]

EmbedStart ==
    /\ em_pc = "loop"
    /\ em_texts \in TextLists
    /\ em_batch_size \in BatchSizes
    /\ em_i = 0
    /\ em_all = <<>>
    /\ em_result = <<>>
    /\ em_calls = <<>>
    /\ em_failed = FALSE

\* one iteration of the for loop: the provider answers the batch
EmbedBatch ==
    /\ em_pc = "loop"
    /\ em_i < Len(em_texts)
    /\ \E data \in Responses(PySlice(em_texts, em_i, em_i + em_batch_size)) :
           em_all' = em_all \o BatchEmbeddings(data)
    /\ em_calls' = Append(em_calls, em_i)
    /\ em_i' = em_i + em_batch_size
    /\ UNCHANGED <<em_pc, em_texts, em_batch_size, em_result, em_failed, notEmbed>>

\* one iteration of the for loop: client.embeddings.create raises
EmbedBatchFails ==
    /\ em_pc = "loop"
    /\ em_i < Len(em_texts)
    /\ em_calls' = Append(em_calls, em_i)
    /\ em_failed' = TRUE
    /\ em_pc' = AfterEmbedError(em_i, em_batch_size).pc
    /\ em_i' = AfterEmbedError(em_i, em_batch_size).i
    /\ UNCHANGED <<em_texts, em_batch_size, em_all, em_result, notEmbed>>

\* the range is exhausted: return all_embeddings
EmbedReturn ==
    /\ em_pc = "loop"
    /\ em_i >= Len(em_texts)
    /\ em_pc' = "returned"
    /\ em_result' = em_all
    /\ UNCHANGED <<em_texts, em_batch_size, em_i, em_all, em_calls, em_failed, notEmbed>>

InitEmbed == AskIdle /\ ChunkIdle /\ EmbedStart /\ PdfIdle /\ SearchIdle /\ RestIdle

NextEmbed == EmbedBatch \/ EmbedBatchFails \/ EmbedReturn

SpecEmbed == InitEmbed /\ [][NextEmbed]_vars

\* ------------------------------------------------ properties, embeddings

\* C15: whatever order the provider returns each batch in, a call that
\* returns hands back one vector per text, the vector at position i being
\* the embedding of text i.
C15_EmbeddingsInInputOrder ==
    em_pc = "returned" =>
        /\ Len(em_result) = Len(em_texts)
        /\ \A i \in 1..Len(em_texts) : em_result[i] = Embedding(em_texts[i])

C15_Witness ==
    /\ em_pc = "returned"
    /\ Len(em_texts) = 3 /\ em_batch_size = 2
    /\ em_texts[1] # em_texts[2]
    /\ Len(em_result) = 3

\* the batch starts 0, b, 2b, ... up to and including last
BatchStartsUpTo(last, b) == [k \in 1..(last \div b + 1) |-> (k - 1) * b]

\* C16: once the provider has failed on a batch the call has raised and
\* hands back nothing; the provider was called once for each batch up to
\* and including the failing one, and it is not called again.
C16_EmbedFailureAborts ==
    em_failed =>
        /\ em_pc = "raised"
        /\ em_result = <<>>
        /\ em_calls = BatchStartsUpTo(em_i, em_batch_size)
        /\ ~ENABLED (EmbedBatch \/ EmbedBatchFails \/ EmbedReturn)

C16_Witness ==
    /\ em_failed /\ em_pc = "raised"
    /\ Len(em_calls) = 2
    /\ em_all # <<>>
    /\ em_i + em_batch_size < Len(em_texts)

\* ====================================================================
\* PDFProcessor.process_pdf (backend/pdf_processor.py): extraction,
\* chunking of every page, embeddings, upload, the documents row, the
\* pdf_chunks rows.  One step of the pipeline per action; a step that
\* calls the outside (the file, the provider, the store) may raise.
\* ====================================================================

\* pages of an uploaded file
MaxPages == 2

\* PDFProcessor.__init__: TextChunker(chunk_size=1000, overlap=200)
PdfChunkSize == 1000
PdfOverlap == 200
\* insert_chunks: batch_size
InsertBatchSize == 50

\* what page.extract_text() may give for a page
RawPages ==
    {<<>>, Run("x", 60), Run("x", 1100),
     TextOf([lead |-> 2, a |-> 55, gap |-> 3, b |-> 60, trail |-> 1])}
RawFiles == UNION {[1..n -> RawPages] : n \in 0..MaxPages}

\* PDFExtractor._clean_text
CleanText(text) == Strip(JoinSplit(text))

\* TextChunker.chunk_text, the whole loop, continued from start
RECURSIVE ChunkFrom(_, _, _, _, _, _)
ChunkFrom(text, page, size, overlap, start, index) ==
    IF start < Len(text)
    THEN LET window == PdfWindow(text, start, size)
             next == PdfNextStart(start, size, overlap)
         IN  IF PdfKeeps(window)
             THEN <<PdfChunk(window, page, index, start, size)>>
                      \o ChunkFrom(text, page, size, overlap, next, index + 1)
             ELSE ChunkFrom(text, page, size, overlap, next, index)
    ELSE <<>>

chunk_text(text, page_number) == ChunkFrom(text, page_number, PdfChunkSize, PdfOverlap, 0, 0)

\* for page_num, text in page_texts.items(): all_chunks.extend(chunk_text(...))
RECURSIVE AllChunks(_, _)
AllChunks(page_texts, page_num) ==
    IF page_num > Len(page_texts) THEN <<>>
    ELSE chunk_text(page_texts[page_num], page_num) \o AllChunks(page_texts, page_num + 1)

\* the rows insert_chunks builds: zip(chunks, embeddings)
ChunkRows(chunks, embeddings) ==
    [k \in 1..Min(Len(chunks), Len(embeddings)) |->
        [document_id |-> "doc_1", page_number |-> chunks[k].page_number,
         chunk_index |-> chunks[k].chunk_index, chunk_text |-> chunks[k].text,
         embedding |-> embeddings[k]]]

PdfStart ==
    /\ pp_pc = "extract"
    /\ pp_raw \in RawFiles
    /\ pp_page_texts = <<>>
    /\ pp_all_chunks = <<>>
    /\ pp_embeddings = <<>>
    /\ pp_i = 0
    /\ pp_file = FALSE
    /\ pp_document = FALSE
    /\ pp_rows = <<>>

\* a step of process_pdf raises: logged and re-raised
PdfRaises(at) ==
    /\ pp_pc = at
    /\ pp_pc' = "raised"
    /\ UNCHANGED <<pp_raw, pp_page_texts, pp_all_chunks, pp_embeddings, pp_i, pp_file,
                   pp_document, pp_rows, notPdf>>

\* Step 1
PdfExtract ==
    /\ pp_pc = "extract"
    /\ pp_page_texts' = [k \in 1..Len(pp_raw) |-> CleanText(pp_raw[k])]
    /\ pp_pc' = "chunk"
    /\ UNCHANGED <<pp_raw, pp_all_chunks, pp_embeddings, pp_i, pp_file, pp_document, pp_rows,
                   notPdf>>

\* Step 2
PdfChunkPages ==
    /\ pp_pc = "chunk"
    /\ pp_all_chunks' = AllChunks(pp_page_texts, 1)
    /\ pp_pc' = "embed"
    /\ UNCHANGED <<pp_raw, pp_page_texts, pp_embeddings, pp_i, pp_file, pp_document, pp_rows,
                   notPdf>>

\* Step 3: generate_embeddings returns one vector per chunk text
PdfEmbed ==
    /\ pp_pc = "embed"
    /\ pp_embeddings' = [k \in 1..Len(pp_all_chunks) |-> Embedding(pp_all_chunks[k].text)]
    /\ pp_pc' = "upload"
    /\ UNCHANGED <<pp_raw, pp_page_texts, pp_all_chunks, pp_i, pp_file, pp_document, pp_rows,
                   notPdf>>

\* a variant of Step 3 in which the error is swallowed and the pipeline goes
\* on without embeddings
PdfEmbedFailsSwallowed ==
    /\ pp_all_chunks # <<>>
    /\ pp_pc = "embed"
    /\ pp_embeddings' = <<>>
    /\ pp_pc' = "upload"
    /\ UNCHANGED <<pp_raw, pp_page_texts, pp_all_chunks, pp_i, pp_file, pp_document, pp_rows,
                   notPdf>>

\* Step 3: generate_embeddings raises (it calls the provider only when
\* there is a text)
PdfEmbedFails == pp_all_chunks # <<>> /\ PdfRaises("embed")

\* Step 4: upload_pdf_file
PdfUpload ==
    /\ pp_pc = "upload"
    /\ pp_file' = TRUE
    /\ pp_pc' = "insert_document"
    /\ UNCHANGED <<pp_raw, pp_page_texts, pp_all_chunks, pp_embeddings, pp_i, pp_document,
                   pp_rows, notPdf>>

\* insert_document
PdfInsertDocument ==
    /\ pp_pc = "insert_document"
    /\ pp_document' = TRUE
    /\ pp_pc' = "insert_chunks"
    /\ UNCHANGED <<pp_raw, pp_page_texts, pp_all_chunks, pp_embeddings, pp_i, pp_file,
                   pp_rows, notPdf>>

\* insert_chunks: one batch of rows, or the return when none is left
PdfInsertChunks ==
    /\ pp_pc = "insert_chunks"
    /\ LET rows == ChunkRows(pp_all_chunks, pp_embeddings)
       IN  IF pp_i < Len(rows)
           THEN /\ pp_rows' = pp_rows \o PySlice(rows, pp_i, pp_i + InsertBatchSize)
                /\ pp_i' = pp_i + InsertBatchSize
                /\ UNCHANGED pp_pc
           ELSE /\ pp_pc' = "done"
                /\ UNCHANGED <<pp_rows, pp_i>>
    /\ UNCHANGED <<pp_raw, pp_page_texts, pp_all_chunks, pp_embeddings, pp_file, pp_document,
                   notPdf>>

\* the insert of a batch raises
PdfInsertChunksFails ==
    /\ pp_i < Len(ChunkRows(pp_all_chunks, pp_embeddings))
    /\ PdfRaises("insert_chunks")

InitPdf == AskIdle /\ ChunkIdle /\ EmbedIdle /\ PdfStart /\ SearchIdle /\ RestIdle

NextPdf ==
    \/ PdfExtract
    \/ PdfRaises("extract")
    \/ PdfChunkPages
    \/ PdfEmbed
    \/ PdfEmbedFails
    \/ PdfUpload
    \/ PdfRaises("upload")
    \/ PdfInsertDocument
    \/ PdfRaises("insert_document")
    \/ PdfInsertChunks
    \/ PdfInsertChunksFails

SpecPdf == InitPdf /\ [][NextPdf]_vars

\* ---------------------------------------------- properties, PDF ingestion

\* C14, for PDF documents: the chunk_index values of the stored chunks of
\* a document are pairwise distinct and form the range 0..n-1.
C14_ChunkIndexUniqueContiguous ==
    /\ \A i, j \in 1..Len(pp_rows) : i # j => pp_rows[i].chunk_index # pp_rows[j].chunk_index
    /\ {pp_rows[k].chunk_index : k \in 1..Len(pp_rows)} = 0..(Len(pp_rows) - 1)

\* ====================================================================
\* Retrieval of context for selected shapes (backend/pdf_processor.py,
\* SupabaseRAGStorage): the listing path get_context_for_shape_ids and
\* the semantic path search_context_for_shape_ids, and the part of
\* ask_stream (backend/server.py) that calls them.
\* A similarity is written in hundredths: 90 for 0.9.  The similarity
\* of a stored chunk to the query is kept in the chunk's row.
\* ====================================================================

\* largest per-parent limit passed by a direct caller
MaxLimit == 2
\* store lookups that raise during one retrieval
MaxFails == 2

\* ask_stream: the limits and the threshold it passes
AskLimit == 5
AskThreshold == 10
\* search_context_for_shape_ids: threshold: float = 0.2
DefaultThreshold == 20

Shapes == {"s1", "s2"}

Row(parent, k, r) ==
    [id |-> <<parent, k>>, chunk_index |-> r[1], page_number |-> r[2], similarity |-> r[3]]
Rows(parent, rs) == [k \in 1..Len(rs) |-> Row(parent, k, rs[k])]

\* rows of a note as insert_handwriting_chunks / replace_typed_note_chunks
\* store them: <<chunk_index, 0, similarity to the query>>
NoteRowsA == <<<<0, 0, 90>>, <<1, 0, 50>>, <<2, 0, 70>>>>
NoteRowsB == <<<<0, 0, 70>>, <<1, 0, 70>>>>
NoteRowsC == <<<<0, 0, 5>>, <<1, 0, 70>>>>
\* rows of a document as insert_chunks stores them: <<chunk_index,
\* page_number, similarity>>, the chunk_index being the one chunk_text gave
DocRowsP == <<<<0, 1, 50>>, <<1, 1, 90>>, <<0, 2, 70>>>>
DocRowsQ == <<<<0, 1, 90>>, <<1, 1, 50>>>>
DocRowsR == <<<<0, 1, 50>>>>

Note(id, frame) == [id |-> id, frame_id |-> frame]
Link(shape, doc) == [shape_id |-> shape, document_id |-> doc]

Stores ==
    {[hw_notes |-> hw, typed_notes |-> ty, links |-> ln,
      chunks |-> [p \in ParentIds |->
                     CASE p = "h1" -> Rows(p, h1)
                       [] p = "h2" -> Rows(p, NoteRowsB)
                       [] p = "n1" -> Rows(p, n1)
                       [] p = "d1" -> Rows(p, d1)
                       [] p = "d2" -> Rows(p, DocRowsR)]] :
        hw \in {<<>>, <<Note("h1", "s1")>>, <<Note("h1", "s1"), Note("h2", "s2")>>},
        ty \in {<<>>, <<Note("n1", "s2")>>},
        ln \in {<<>>, <<Link("s1", "d1"), Link("s2", "d1")>>,
                <<Link("s1", "d1"), Link("s2", "d2")>>},
        h1 \in {NoteRowsA, NoteRowsB},
        n1 \in {NoteRowsA, NoteRowsC},
        d1 \in {DocRowsP, DocRowsQ}}

\* the lookups of one retrieval that may raise: the three table lookups by
\* shape id, the documents lookup, and the chunk lookup of each parent
Lookups == {"hw_notes", "pdf_links", "pdf_documents", "typed_notes"} \cup ParentIds
FailSets == {f \in SUBSET Lookups : Cardinality(f) <= MaxFails}

\* the rows in an order sorted by key, rows with equal keys in any order
\* (.order(column) of the store)
Orderings(rows, Key(_)) ==
    {o \in Rearrangements(rows) : \A a, b \in 1..Len(o) : a < b => Key(o[a]) <= Key(o[b])}
ByChunkIndex(r) == r.chunk_index
ByPageNumber(r) == r.page_number

\* for every parent, an order the store may return its rows in: notes are
\* read with .order("chunk_index"), documents with .order("page_number")
DbOrders(st) ==
    {[p \in ParentIds |->
         CASE p = "d1" -> o1
           [] p = "d2" -> o2
           [] OTHER -> CHOOSE o \in Orderings(st.chunks[p], ByChunkIndex) : TRUE] :
        o1 \in Orderings(st.chunks["d1"], ByPageNumber),
        o2 \in Orderings(st.chunks["d2"], ByPageNumber)}

\* .limit(n)
FirstN(rows, n) == SubSeq(rows, 1, Min(n, Len(rows)))

\* _get_handwriting_notes: [] without frames and when the lookup raises
get_handwriting_notes(st, frame_ids, fails) ==
    IF frame_ids = {} \/ "hw_notes" \in fails THEN <<>>
    ELSE SelectSeq(st.hw_notes, LAMBDA n : n.frame_id \in frame_ids)

\* get_pdf_links
get_pdf_links(st, shape_ids, fails) ==
    IF shape_ids = {} \/ "pdf_links" \in fails THEN <<>>
    ELSE SelectSeq(st.links, LAMBDA l : l.shape_id \in shape_ids)

\* the typed_notes lookup of get_typed_context_for_frames / search_typed_context
get_typed_notes(st, frame_ids, fails) ==
    IF frame_ids = {} \/ "typed_notes" \in fails THEN <<>>
    ELSE SelectSeq(st.typed_notes, LAMBDA n : n.frame_id \in frame_ids)

\* docs_lookup.get(document_id, {}).get("filename")
Filename(document_id, fails) == IF "pdf_documents" \in fails THEN None ELSE document_id

\* the entries the loops over notes and links append
NoteEntry(kind, note, row) ==
    [source_type |-> kind, frame_id |-> note.frame_id, note_id |-> note.id,
     chunk_id |-> row.id, chunk_index |-> row.chunk_index]
PdfEntry(link, row, fails) ==
    [source_type |-> "pdf", shape_id |-> link.shape_id, document_id |-> link.document_id,
     chunk_id |-> row.id, page_number |-> row.page_number,
     filename |-> Filename(link.document_id, fails)]
NoteMatch(kind, note, row) ==
    [source_type |-> kind, frame_id |-> note.frame_id, note_id |-> note.id,
     chunk_id |-> row.id, similarity |-> row.similarity]
PdfMatch(link, row, fails) ==
    [source_type |-> "pdf", shape_id |-> link.shape_id, document_id |-> link.document_id,
     chunk_id |-> row.id, page_number |-> row.page_number,
     filename |-> Filename(link.document_id, fails), similarity |-> row.similarity]

\* for note in notes: the first rows by chunk_index, none when the lookup raises
RECURSIVE NoteContexts(_, _, _, _, _)
NoteContexts(kind, notes, order, limit, fails) ==
    IF notes = <<>> THEN <<>>
    ELSE LET note == Head(notes)
             rows == IF note.id \in fails THEN <<>> ELSE FirstN(order[note.id], limit)
         IN  [k \in 1..Len(rows) |-> NoteEntry(kind, note, rows[k])]
                 \o NoteContexts(kind, Tail(notes), order, limit, fails)

get_handwriting_context_for_frames(st, frame_ids, limit, fails, order) ==
    NoteContexts("handwriting", get_handwriting_notes(st, frame_ids, fails), order, limit, fails)

get_typed_context_for_frames(st, frame_ids, limit, fails, order) ==
    NoteContexts("typed", get_typed_notes(st, frame_ids, fails), order, limit, fails)

\* for link in links: the first rows by page_number
RECURSIVE LinkContexts(_, _, _, _)
LinkContexts(links, order, limit, fails) ==
    IF links = <<>> THEN <<>>
    ELSE LET link == Head(links)
             rows == IF link.document_id \in fails THEN <<>>
                     ELSE FirstN(order[link.document_id], limit)
         IN  [k \in 1..Len(rows) |-> PdfEntry(link, rows[k], fails)]
                 \o LinkContexts(Tail(links), order, limit, fails)

get_pdf_context_for_shapes(st, shape_ids, limit, fails, order) ==
    LinkContexts(get_pdf_links(st, shape_ids, fails), order, limit, fails)

get_context_for_shape_ids(st, shape_ids, limit, fails, order) ==
    get_handwriting_context_for_frames(st, shape_ids, limit.hw, fails, order)
        \o get_pdf_context_for_shapes(st, shape_ids, limit.pdf, fails, order)
        \o get_typed_context_for_frames(st, shape_ids, limit.typed, fails, order)

\* the stored functions match_handwriting_chunks, match_pdf_chunks and
\* match_typed_note_chunks: the rows of one parent with similarity at or
\* above the threshold, by similarity descending, at most count of them
BySimilarityDesc(r) == 0 - r.similarity
Match(rows, threshold, count) ==
    LET hits == SelectSeq(rows, LAMBDA r : r.similarity >= threshold)
    IN  FirstN(CHOOSE o \in Orderings(hits, BySimilarityDesc) : TRUE, count)

RECURSIVE NoteMatches(_, _, _, _, _, _)
NoteMatches(kind, st, notes, limit, threshold, fails) ==
    IF notes = <<>> THEN <<>>
    ELSE LET note == Head(notes)
             rows == IF note.id \in fails THEN <<>>
                     ELSE Match(st.chunks[note.id], threshold, limit)
         IN  [k \in 1..Len(rows) |-> NoteMatch(kind, note, rows[k])]
                 \o NoteMatches(kind, st, Tail(notes), limit, threshold, fails)

search_handwriting_context(st, frame_ids, limit, threshold, fails) ==
    NoteMatches("handwriting", st, get_handwriting_notes(st, frame_ids, fails), limit,
                threshold, fails)

search_typed_context(st, frame_ids, limit, threshold, fails) ==
    NoteMatches("typed", st, get_typed_notes(st, frame_ids, fails), limit, threshold, fails)

\* for link in links: one match_pdf_chunks call per link
RECURSIVE LinkMatches(_, _, _, _, _)
LinkMatches(st, links, limit, threshold, fails) ==
    IF links = <<>> THEN <<>>
    ELSE LET link == Head(links)
             rows == IF link.document_id \in fails THEN <<>>
                     ELSE Match(st.chunks[link.document_id], threshold, limit)
         IN  [k \in 1..Len(rows) |-> PdfMatch(link, rows[k], fails)]
                 \o LinkMatches(st, Tail(links), limit, threshold, fails)

search_pdf_context(st, shape_ids, limit, threshold, fails) ==
    LinkMatches(st, get_pdf_links(st, shape_ids, fails), limit, threshold, fails)

\* the three searches, in the order their hits are gathered
GatherMatches(st, shape_ids, limit, threshold, fails) ==
    search_handwriting_context(st, shape_ids, limit.hw, threshold, fails)
        \o search_pdf_context(st, shape_ids, limit.pdf, threshold, fails)
        \o search_typed_context(st, shape_ids, limit.typed, threshold, fails)

\* matches.sort(key=lambda x: x.get("similarity", 0), reverse=True): a
\* stable sort, equal keys keep their order also with reverse=True
InsertBeforeEqual(sorted, x) ==
    LET c == Cardinality({k \in 1..Len(sorted) : sorted[k].similarity > x.similarity})
    IN  SubSeq(sorted, 1, c) \o <<x>> \o SubSeq(sorted, c + 1, Len(sorted))
InsertAfterEqual(sorted, x) ==
    LET c == Cardinality({k \in 1..Len(sorted) : sorted[k].similarity >= x.similarity})
    IN  SubSeq(sorted, 1, c) \o <<x>> \o SubSeq(sorted, c + 1, Len(sorted))

RECURSIVE SortMatches(_)
SortMatches(matches) ==
    IF matches = <<>> THEN <<>>
    ELSE InsertAfterEqual(SortMatches(SubSeq(matches, 1, Len(matches) - 1)),
                          matches[Len(matches)])

search_context_for_shape_ids(st, shape_ids, limit, threshold, fails) ==
    SortMatches(GatherMatches(st, shape_ids, limit, threshold, fails))

\* ask_stream, the except branch around the embedding and the search: the
\* entries come from get_context_for_shape_ids and the request goes on
AskOnEmbedErrorRaises(entries) == [pc |-> "error", entries |-> <<>>, path |-> "none"]
AskOnEmbedError(entries) == [pc |-> "respond", entries |-> entries, path |-> "fallback"]

UniformLimit(n) == [hw |-> n, pdf |-> n, typed |-> n]

SearchStart ==
    /\ store \in Stores
    /\ sr_pc = "call"
    /\ sr_caller \in {"search", "fallback", "ask"}
    /\ sr_shape_ids \in SUBSET Shapes
    /\ IF sr_caller = "ask"
       THEN sr_limit = UniformLimit(AskLimit) /\ sr_threshold = AskThreshold
       ELSE sr_limit \in {UniformLimit(n) : n \in 1..MaxLimit}
                /\ sr_threshold = DefaultThreshold
    /\ sr_result = <<>>
    /\ sr_path = "none"
    /\ sr_gathered = <<>>
    /\ sr_fails = {}
    /\ sr_order = [p \in ParentIds |-> <<>>]
    /\ sr_embed_failed = FALSE

\* the semantic path with the given lookups raising
Semantic(fails, to) ==
    /\ sr_gathered' = GatherMatches(store, sr_shape_ids, sr_limit, sr_threshold, fails)
    /\ sr_result' = search_context_for_shape_ids(store, sr_shape_ids, sr_limit,
                                                 sr_threshold, fails)
    /\ sr_fails' = fails
    /\ sr_path' = "semantic"
    /\ sr_pc' = to
    /\ UNCHANGED <<store, sr_caller, sr_shape_ids, sr_limit, sr_threshold, sr_order,
                   sr_embed_failed, askVars, notSearch>>

\* a call of search_context_for_shape_ids
SearchCall ==
    /\ sr_pc = "call"
    /\ sr_caller = "search"
    /\ \E fails \in FailSets : Semantic(fails, "done")

\* a call of get_context_for_shape_ids
GetContextCall ==
    /\ sr_pc = "call"
    /\ sr_caller = "fallback"
    /\ \E fails \in FailSets, order \in DbOrders(store) :
           /\ sr_result' = get_context_for_shape_ids(store, sr_shape_ids, sr_limit, fails,
                                                     order)
           /\ sr_fails' = fails
           /\ sr_order' = order
    /\ sr_path' = "fallback"
    /\ sr_pc' = "done"
    /\ UNCHANGED <<store, sr_caller, sr_shape_ids, sr_limit, sr_threshold, sr_gathered,
                   sr_embed_failed, askVars, notSearch>>

\* ask_stream without selected shapes: no retrieval
AskNoSelection ==
    /\ sr_pc = "call"
    /\ sr_caller = "ask"
    /\ sr_shape_ids = {}
    /\ sr_pc' = "respond"
    /\ UNCHANGED <<store, sr_caller, sr_shape_ids, sr_limit, sr_threshold, sr_result,
                   sr_path, sr_gathered, sr_fails, sr_order, sr_embed_failed, askVars,
                   notSearch>>

\* ask_stream, the try block: the prompt is embedded and the search returns
AskSearch ==
    /\ sr_pc = "call"
    /\ sr_caller = "ask"
    /\ sr_shape_ids # {}
    /\ \E fails \in FailSets : Semantic(fails, "respond")

\* ask_stream: generate_embeddings raises on the prompt
AskEmbedFails ==
    /\ sr_pc = "call"
    /\ sr_caller = "ask"
    /\ sr_shape_ids # {}
    /\ sr_embed_failed' = TRUE
    /\ \E fails \in FailSets, order \in DbOrders(store) :
           LET out == AskOnEmbedError(get_context_for_shape_ids(store, sr_shape_ids,
                                                                sr_limit, fails, order))
           IN  /\ sr_result' = out.entries
               /\ sr_path' = out.path
               /\ sr_pc' = out.pc
               /\ sr_fails' = fails
               /\ sr_order' = order
    /\ UNCHANGED <<store, sr_caller, sr_shape_ids, sr_limit, sr_threshold, sr_gathered,
                   askVars, notSearch>>

\* ask_stream returns the StreamingResponse over generate_c1_response: the
\* generator is at its start, with selection context when there are entries
AskRespond ==
    /\ sr_pc = "respond"
    /\ sr_pc' = "streaming"
    /\ pc' = "start"
    /\ request' \in {r \in Requests : r.selection = (sr_result # <<>>)}
    /\ UNCHANGED <<store, sr_caller, sr_shape_ids, sr_limit, sr_threshold, sr_result,
                   sr_path, sr_gathered, sr_fails, sr_order, sr_embed_failed, notSearch>>
    /\ UNCHANGED <<provider, messages, current_tool_call, tool_call_id, tool_call_round,
                   tool_call_executed, last_finish_reason, events, stalled, turnsOpened,
                   sent, toolsExecuted, consumed, callHist, lastExec, failedTurn, deltas>>

InitSearch == AskIdle /\ ChunkIdle /\ EmbedIdle /\ PdfIdle /\ SearchStart /\ RestIdle

NextSearch ==
    SearchCall \/ GetContextCall \/ AskNoSelection \/ AskSearch \/ AskEmbedFails \/ AskRespond

SpecSearch == InitSearch /\ [][NextSearch]_vars

\* ------------------------------------------------- properties, retrieval

Similarities(es) == [k \in 1..Len(es) |-> es[k].similarity]
Count(es, e) == Cardinality({k \in 1..Len(es) : es[k] = e})
KindRank(e) ==
    CASE e.source_type = "handwriting" -> 1 [] e.source_type = "pdf" -> 2 [] OTHER -> 3
EntryParent(e) == IF e.source_type = "pdf" THEN e.document_id ELSE e.note_id
LimitOf(e) ==
    CASE e.source_type = "handwriting" -> sr_limit.hw
      [] e.source_type = "pdf" -> sr_limit.pdf
      [] OTHER -> sr_limit.typed

\* C17: the result of the semantic path holds every gathered hit once, by
\* similarity non-increasing, hits of equal similarity in the order they
\* were gathered (handwriting, then PDF, then typed); hits of 0.9, 0.5,
\* 0.7 come back as 0.9, 0.7, 0.5.
C17_MergedBySimilarityStable ==
    sr_path = "semantic" =>
        /\ Len(sr_result) = Len(sr_gathered)
        /\ \A k \in 1..Len(sr_gathered) :
               Count(sr_result, sr_gathered[k]) = Count(sr_gathered, sr_gathered[k])
        /\ \A a, b \in 1..Len(sr_gathered) :
               a < b => KindRank(sr_gathered[a]) <= KindRank(sr_gathered[b])
        /\ \A a, b \in 1..Len(sr_result) :
               a < b =>
                   /\ sr_result[a].similarity >= sr_result[b].similarity
                   /\ sr_result[a].similarity = sr_result[b].similarity =>
                          \E i, j \in 1..Len(sr_gathered) :
                              /\ i < j
                              /\ sr_gathered[i] = sr_result[a]
                              /\ sr_gathered[j] = sr_result[b]
        /\ Similarities(sr_gathered) = <<90, 50, 70>> =>
               Similarities(sr_result) = <<90, 70, 50>>

C17_Witness ==
    /\ sr_path = "semantic"
    /\ Similarities(sr_gathered) = <<90, 50, 70>>
    /\ [k \in 1..3 |-> KindRank(sr_gathered[k])] = <<1, 2, 3>>
    /\ Similarities(sr_result) = <<90, 70, 50>>

\* C18: in the result of the semantic path every parent has at most as
\* many entries as the per-parent limit of its source kind.
C18_PerParentLimit ==
    sr_path = "semantic" =>
        \A k \in 1..Len(sr_result) :
            Cardinality({j \in 1..Len(sr_result) :
                            EntryParent(sr_result[j]) = EntryParent(sr_result[k])})
                <= LimitOf(sr_result[k])

\* C19: when the embedding of the prompt fails with shapes selected, the
\* request does not fail: its entries are those of
\* get_context_for_shape_ids, whatever lookups raised, and the response
\* stream is started; no retrieval of ask_stream ends in an error.
C19_EmbedFailureFallsBack ==
    /\ sr_caller = "ask" => sr_pc # "error"
    /\ sr_embed_failed =>
           /\ sr_pc \in {"respond", "streaming"}
           /\ sr_path = "fallback"
           /\ sr_result = get_context_for_shape_ids(store, sr_shape_ids,
                                                    UniformLimit(AskLimit), sr_fails,
                                                    sr_order)
           /\ sr_pc = "respond" => ENABLED AskRespond
           /\ sr_pc = "streaming" => pc = "start" /\ request.selection = (sr_result # <<>>)

C19_Witness ==
    /\ sr_embed_failed
    /\ sr_pc = "streaming" /\ pc = "start"
    /\ sr_fails # {}
    /\ sr_result # <<>>

\* the parents with an entry in a result
ParentsIn(es) == {EntryParent(es[k]) : k \in 1..Len(es)}
\* the parents the semantic path finds a chunk of when every chunk matches
SearchedParents(st, ids, limit) == ParentsIn(search_context_for_shape_ids(st, ids, limit, 0, {}))

\* the chunk ids of the entries of one lookup: of a note, or of a document
\* through one shape
IdsFor(es, parent, shape) ==
    LET mine == SelectSeq(es, LAMBDA e :
                    /\ EntryParent(e) = parent
                    /\ (e.source_type = "pdf" => e.shape_id = shape))
    IN  [k \in 1..Len(mine) |-> mine[k].chunk_id]
RowIds(rows) == [k \in 1..Len(rows) |-> rows[k].id]
FirstByChunkIndex(parent, n) ==
    {RowIds(FirstN(o, n)) : o \in Orderings(store.chunks[parent], ByChunkIndex)}

\* C20: with no lookup raising, the listing path returns chunks of exactly
\* the parents the semantic path searches, and for each of them its first
\* N chunks in ascending chunk_index order, N being the limit of its
\* source kind.
C20_FallbackFirstByChunkIndex ==
    (sr_path = "fallback" /\ sr_fails = {}) =>
        /\ ParentsIn(sr_result) = SearchedParents(store, sr_shape_ids, sr_limit)
        /\ \A p \in ParentsIn(sr_result) :
               /\ p \in HwIds => IdsFor(sr_result, p, "") \in FirstByChunkIndex(p, sr_limit.hw)
               /\ p \in TypedIds =>
                      IdsFor(sr_result, p, "") \in FirstByChunkIndex(p, sr_limit.typed)
               /\ p \in DocIds =>
                      \A s \in sr_shape_ids :
                          (\E k \in 1..Len(store.links) : store.links[k] = Link(s, p)) =>
                              IdsFor(sr_result, p, s) \in FirstByChunkIndex(p, sr_limit.pdf)

\* ---------------------------------------------------------------------------
\* The ask stream, continued: accepted calls and the end of the stream
\* ---------------------------------------------------------------------------

\* the step appended a thinking event: the call passed every check at the
\* finish signal "tool_calls" (server.py 654-661)
ThinkingEmitted ==
    /\ Len(events') > Len(events)
    /\ events'[Len(events')].type = "thinking"

\* C24: whenever a completed call passes validation at the finish signal
\* "tool_calls" (the step that emits the thinking event), a tool is executed
\* in that step and the accumulator is Idle afterwards, whatever the accepted
\* tool name is; a thinking event never comes without an execution.
C24_AcceptedCallExecuted ==
    [][ThinkingEmitted =>
           /\ toolsExecuted' = toolsExecuted + 1
           /\ current_tool_call' = <<>>
           /\ tool_call_id' = None]_vars

\* the positions of the done event in the stream
DonePositions == {i \in 1..Len(events) : events[i].type = "done"}

\* C28: a closed event stream holds exactly one done event and it is the
\* last event, on every path: completion, the round cap, an error inside a
\* turn, a failure to open a turn.
C28_ClosedStreamEndsWithOneDone ==
    pc = "closed" => DonePositions = {Len(events)} /\ events # <<>>

\* ---------------------------------------------------------------------------
\* The chunkers, continued: the offsets stored with a chunk
\* ---------------------------------------------------------------------------

\* the offsets of a chunk describe its text inside the chunked text
OffsetsFit(c, text) ==
    /\ c.char_end - c.char_start = Len(c.text)
    /\ c.char_start < c.char_end
    /\ c.char_end <= Len(text)

\* C29: for every chunk of either chunker char_end - char_start is the
\* length of the chunk's text, char_start < char_end, and char_end is at most
\* the length of the chunked text, the last window included.
C29_ChunkOffsetsFit ==
    \A k \in 1..Len(ck_chunks) : OffsetsFit(ck_chunks[k], ck_norm)

\* ---------------------------------------------------------------------------
\* PDF ingestion, continued: what is stored when a step fails
\* ---------------------------------------------------------------------------

\* extraction gave the page texts and there is one embedding per chunk
ExtractedAndEmbedded ==
    /\ Len(pp_page_texts) = Len(pp_raw)
    /\ pp_all_chunks = AllChunks(pp_page_texts, 1)
    /\ Len(pp_embeddings) = Len(pp_all_chunks)
    /\ \A k \in 1..Len(pp_all_chunks) : pp_embeddings[k] = Embedding(pp_all_chunks[k].text)

\* nothing of the upload is in the store
NothingStored == ~pp_file /\ ~pp_document /\ pp_rows = <<>>

\* C30: the Document record is created only after extraction and the
\* embedding of every chunk have succeeded (and after the file upload); a
\* failure of extraction or of embedding makes process_pdf raise with no
\* stored file, no Document record and no chunk row; chunk rows are written
\* only when their Document record exists.
C30_DocumentAfterExtractAndEmbed ==
    [][/\ (pp_document' /\ ~pp_document) => ExtractedAndEmbedded /\ pp_file
       /\ (pp_pc \in {"extract", "chunk", "embed"} /\ pp_pc' # pp_pc) =>
              /\ NothingStored'
              /\ pp_pc' \in {"chunk", "embed", "upload", "raised"}
              /\ pp_pc' = "upload" => ExtractedAndEmbedded'
       /\ pp_rows' # pp_rows => pp_document /\ pp_document']_vars
C30_Witness ==
    /\ pp_pc = "raised"
    /\ Len(pp_all_chunks) >= 2
    /\ pp_embeddings = <<>>
    /\ NothingStored

\* ====================================================================
\* Handwriting notes (backend/server.py, upload_handwriting_image;
\* backend/pdf_processor.py, HandwritingProcessor.process_note and the
\* store calls it makes).  Each upload inserts a new note row and queues
\* one process_note task for it; the tasks of different notes interleave.
\* A store or provider call that raises has had no effect.
\* ====================================================================

\* HandwritingProcessor.__init__: chunk_size, overlap
HwChunkSize == 400
HwOverlap == 80
\* insert_handwriting_chunks: batch_size
HwInsertBatchSize == 50

\* what _perform_ocr may return (the text is stripped): nothing, two words,
\* a text of two windows, a text of more windows than one insert batch
OcrTexts ==
    {<<>>, TextOf([lead |-> 0, a |-> 3, gap |-> 3, b |-> 60, trail |-> 0]),
     Run("x", 500), Run("x", 16100)}

TerminalStatuses == {"processed", "no_text", "failed"}

\* HandwritingProcessor._chunk_text: the windows from start on
RECURSIVE HwWindowsFrom(_, _, _)
HwWindowsFrom(normalized, start, index) ==
    IF start >= Len(normalized) THEN <<>>
    ELSE LET end == HwEnd(normalized, start, HwChunkSize)
             window == PySlice(normalized, start, end)
             here == IF HwKeeps(window)
                     THEN <<HwChunk(window, index, start, end)>> ELSE <<>>
         IN  IF end = Len(normalized) THEN here
             ELSE here \o HwWindowsFrom(normalized, HwNextStart(start, end, HwOverlap),
                                        index + Len(here))

\* HandwritingProcessor._chunk_text
HwChunkText(text) ==
    LET normalized == JoinSplit(text)
        chunks == HwWindowsFrom(normalized, 0, 0)
    IN  IF normalized = <<>> THEN <<>>
        ELSE IF chunks # <<>> THEN chunks
        ELSE <<HwChunk(normalized, 0, 0, Len(normalized))>>

\* insert_handwriting_chunks: the rows, one per pair of zip(chunks, embeddings)
HwRows(note_id, chunks, embeddings) ==
    [k \in 1..Min(Len(chunks), Len(embeddings)) |->
        [note_id |-> note_id, chunk_index |-> chunks[k].chunk_index,
         chunk_text |-> chunks[k].text, embedding |-> embeddings[k],
         char_start |-> chunks[k].char_start, char_end |-> chunks[k].char_end]]

\* update_handwriting_note(note_id, {"status": status, ...})
UpdateStatus(n, status) ==
    /\ hn_status' = [hn_status EXCEPT ![n] = status]
    /\ hn_history' = [hn_history EXCEPT ![n] = Append(@, status)]

\* a step of process_note raises inside the try: the except branch is next
NoteRaises(n, at) ==
    /\ hn_pc[n] = at
    /\ hn_pc' = [hn_pc EXCEPT ![n] = "mark_failed"]
    /\ hn_raised' = [hn_raised EXCEPT ![n] = Append(@, at)]
    /\ UNCHANGED <<hn_status, hn_history, hn_ocr_text, hn_chunks, hn_embeddings, hn_i,
                   hn_rows, notNote>>

\* upload_handwriting_image: the note row is inserted with status
\* "processing" and process_note is added to the background tasks
NoteUpload(n) ==
    /\ hn_pc[n] = "none"
    /\ UpdateStatus(n, "processing")
    /\ hn_pc' = [hn_pc EXCEPT ![n] = "ocr"]
    /\ UNCHANGED <<hn_ocr_text, hn_chunks, hn_embeddings, hn_i, hn_rows, hn_raised, notNote>>

\* a variant of NoteOcr that lacks the test for an empty text
NoteOcrNoEmptyTest(n) ==
    /\ hn_pc[n] = "ocr"
    /\ \E text \in OcrTexts :
           /\ hn_ocr_text' = [hn_ocr_text EXCEPT ![n] = text]
           /\ hn_chunks' = [hn_chunks EXCEPT ![n] = HwChunkText(text)]
           /\ hn_pc' = [hn_pc EXCEPT ![n] = "embed"]
    /\ UNCHANGED <<hn_status, hn_history, hn_embeddings, hn_i, hn_rows, hn_raised, notNote>>

\* process_note: _perform_ocr, the test for an empty text, _chunk_text
NoteOcr(n) ==
    /\ hn_pc[n] = "ocr"
    /\ \E text \in OcrTexts :
           /\ hn_ocr_text' = [hn_ocr_text EXCEPT ![n] = text]
           /\ IF Strip(text) = <<>>
              THEN /\ hn_pc' = [hn_pc EXCEPT ![n] = "mark_no_text"]
                   /\ UNCHANGED hn_chunks
              ELSE /\ hn_chunks' = [hn_chunks EXCEPT ![n] = HwChunkText(text)]
                   /\ hn_pc' = [hn_pc EXCEPT ![n] = "embed"]
    /\ UNCHANGED <<hn_status, hn_history, hn_embeddings, hn_i, hn_rows, hn_raised, notNote>>

\* _perform_ocr raises
NoteOcrFails(n) == NoteRaises(n, "ocr")

\* the status update of the empty-text branch, then the return
NoteMarkNoText(n) ==
    /\ hn_pc[n] = "mark_no_text"
    /\ UpdateStatus(n, "no_text")
    /\ hn_pc' = [hn_pc EXCEPT ![n] = "returned"]
    /\ UNCHANGED <<hn_ocr_text, hn_chunks, hn_embeddings, hn_i, hn_rows, hn_raised, notNote>>

NoteMarkNoTextFails(n) == NoteRaises(n, "mark_no_text")

\* generate_embeddings returns one vector per chunk text
NoteEmbed(n) ==
    /\ hn_pc[n] = "embed"
    /\ hn_embeddings' = [hn_embeddings EXCEPT ![n] =
                             [k \in 1..Len(hn_chunks[n]) |-> Embedding(hn_chunks[n][k].text)]]
    /\ hn_pc' = [hn_pc EXCEPT ![n] = "insert"]
    /\ UNCHANGED <<hn_status, hn_history, hn_ocr_text, hn_chunks, hn_i, hn_rows, hn_raised,
                   notNote>>

\* generate_embeddings raises (it calls the provider only when there is a text)
NoteEmbedFails(n) == hn_chunks[n] # <<>> /\ NoteRaises(n, "embed")

\* insert_handwriting_chunks: one batch of rows, or the return when none is
\* left or when there is nothing to insert
NoteInsertChunks(n) ==
    /\ hn_pc[n] = "insert"
    /\ LET rows == HwRows(n, hn_chunks[n], hn_embeddings[n])
       IN  IF hn_chunks[n] # <<>> /\ hn_embeddings[n] # <<>> /\ hn_i[n] < Len(rows)
           THEN /\ hn_rows' = [hn_rows EXCEPT ![n] =
                                   @ \o PySlice(rows, hn_i[n], hn_i[n] + HwInsertBatchSize)]
                /\ hn_i' = [hn_i EXCEPT ![n] = @ + HwInsertBatchSize]
                /\ UNCHANGED hn_pc
           ELSE /\ hn_pc' = [hn_pc EXCEPT ![n] = "mark_processed"]
                /\ UNCHANGED <<hn_rows, hn_i>>
    /\ UNCHANGED <<hn_status, hn_history, hn_ocr_text, hn_chunks, hn_embeddings, hn_raised,
                   notNote>>

\* the insert of a batch raises
NoteInsertChunksFails(n) ==
    /\ hn_i[n] < Len(HwRows(n, hn_chunks[n], hn_embeddings[n]))
    /\ NoteRaises(n, "insert")

\* the status update after the insert, then the return
NoteMarkProcessed(n) ==
    /\ hn_pc[n] = "mark_processed"
    /\ UpdateStatus(n, "processed")
    /\ hn_pc' = [hn_pc EXCEPT ![n] = "returned"]
    /\ UNCHANGED <<hn_ocr_text, hn_chunks, hn_embeddings, hn_i, hn_rows, hn_raised, notNote>>

\* a variant of NoteMarkProcessedFails in which the update raises after the
\* store has applied it
NoteMarkProcessedFailsApplied(n) ==
    /\ hn_pc[n] = "mark_processed"
    /\ UpdateStatus(n, "processed")
    /\ hn_pc' = [hn_pc EXCEPT ![n] = "mark_failed"]
    /\ hn_raised' = [hn_raised EXCEPT ![n] = Append(@, "mark_processed")]
    /\ UNCHANGED <<hn_ocr_text, hn_chunks, hn_embeddings, hn_i, hn_rows, notNote>>

NoteMarkProcessedFails(n) == NoteRaises(n, "mark_processed")

\* the except branch: the status update to "failed", then the return
NoteMarkFailed(n) ==
    /\ hn_pc[n] = "mark_failed"
    /\ UpdateStatus(n, "failed")
    /\ hn_pc' = [hn_pc EXCEPT ![n] = "returned"]
    /\ UNCHANGED <<hn_ocr_text, hn_chunks, hn_embeddings, hn_i, hn_rows, hn_raised, notNote>>

\* the except branch: the status update raises and the error is passed over
NoteMarkFailedFails(n) ==
    /\ hn_pc[n] = "mark_failed"
    /\ hn_pc' = [hn_pc EXCEPT ![n] = "returned"]
    /\ hn_raised' = [hn_raised EXCEPT ![n] = Append(@, "mark_failed")]
    /\ UNCHANGED <<hn_status, hn_history, hn_ocr_text, hn_chunks, hn_embeddings, hn_i,
                   hn_rows, notNote>>

\* the components of the earlier sections are not in use
BaseIdle == AskIdle /\ ChunkIdle /\ EmbedIdle /\ PdfIdle /\ SearchIdle

InitNote == BaseIdle /\ NoteIdle /\ TypedIdle /\ LinkIdle

NextNote ==
    \/ \E n \in NoteIds : NoteUpload(n)
    \/ \E n \in NoteIds : NoteOcr(n)
    \/ \E n \in NoteIds : NoteOcrFails(n)
    \/ \E n \in NoteIds : NoteMarkNoText(n)
    \/ \E n \in NoteIds : NoteMarkNoTextFails(n)
    \/ \E n \in NoteIds : NoteEmbed(n)
    \/ \E n \in NoteIds : NoteEmbedFails(n)
    \/ \E n \in NoteIds : NoteInsertChunks(n)
    \/ \E n \in NoteIds : NoteInsertChunksFails(n)
    \/ \E n \in NoteIds : NoteMarkProcessed(n)
    \/ \E n \in NoteIds : NoteMarkProcessedFails(n)
    \/ \E n \in NoteIds : NoteMarkFailed(n)
    \/ \E n \in NoteIds : NoteMarkFailedFails(n)

SpecNote == InitNote /\ [][NextNote]_vars

\* ------------------------------------------ properties, handwriting notes

\* C21: the statuses written to a note are "processing" followed by at most
\* one of "processed", "no_text", "failed"; no step changes a terminal status
\* and no step returns a note to "processing".
C21_StatusMonotonic ==
    [][\A n \in NoteIds :
           /\ hn_status[n] \in TerminalStatuses => hn_status'[n] = hn_status[n]
           /\ hn_status[n] # "none" /\ hn_status'[n] = "processing" =>
                  hn_status[n] = "processing"
           /\ \/ hn_history'[n] \in {<<>>, <<"processing">>}
              \/ \E t \in TerminalStatuses : hn_history'[n] = <<"processing", t>>]_vars
C21_Witness ==
    \E n \in NoteIds :
        /\ hn_pc[n] = "returned"
        /\ hn_status[n] = "failed"
        /\ hn_raised[n] = <<"mark_processed">>
        /\ hn_rows[n] # <<>>

\* the chunks and embeddings process_note holds are those of the text OCR
\* returned: every chunk of the text, one embedding for each
ChunksEmbedded(n) ==
    /\ Strip(hn_ocr_text[n]) # <<>>
    /\ hn_chunks[n] = HwChunkText(hn_ocr_text[n])
    /\ Len(hn_embeddings[n]) = Len(hn_chunks[n])
    /\ \A k \in 1..Len(hn_chunks[n]) : hn_embeddings[n][k] = Embedding(hn_chunks[n][k].text)

\* the rows process_note has to insert
DueRows(n) == HwRows(n, hn_chunks[n], hn_embeddings[n])

\* C25: a note is "processed" only when all of its chunks are inserted, and
\* chunk rows exist only when OCR returned a non-empty text and there is an
\* embedding for every chunk; a "no_text" note has no chunk row and a
\* "processed" note has at least one.
C25_ProcessedAfterAllChunks ==
    \A n \in NoteIds :
        /\ hn_status[n] = "processed" => hn_rows[n] = DueRows(n) /\ Len(hn_rows[n]) >= 1
        /\ hn_rows[n] # <<>> =>
               /\ ChunksEmbedded(n)
               /\ hn_rows[n] = SubSeq(DueRows(n), 1, Len(hn_rows[n]))
        /\ hn_status[n] = "no_text" => hn_rows[n] = <<>>
C25_Witness ==
    \E n \in NoteIds :
        /\ hn_status[n] = "processed"
        /\ Len(hn_rows[n]) > HwInsertBatchSize

\* C26: when process_note has returned, the status of its note is
\* "processed", "no_text" or "failed", whichever step raised.
C26_ReturnedNoteIsTerminal ==
    \A n \in NoteIds : hn_pc[n] = "returned" => hn_status[n] \in TerminalStatuses

\* ====================================================================
\* Typed notes (backend/server.py, sync_typed_note; backend/pdf_processor.py,
\* insert_typed_note and replace_typed_note_chunks).  The handler is an
\* async function that never awaits, so the server, which runs as one
\* process, handles the syncs of a frame one after the other.  A shape's
\* text is its text field; a store or provider call that raises has had no
\* effect.
\* ====================================================================

\* the largest number of syncs of the frame
MaxSyncs == 3
\* replace_typed_note_chunks: batch_size
TypedBatchSize == 50

\* shape.order when the request gives none
NoOrder == -1

Shape(id, text, order) == [shapeId |-> id, text |-> text, order |-> order]

\* request.textShapes: no shape, blank texts only, one text, a text with
\* blanks around it, two texts given out of order, a text and an empty one,
\* two texts of equal sort key
ShapeLists ==
    {<<>>,
     <<Shape("s1", <<Space, Space>>, 0)>>,
     <<Shape("s1", <<>>, 0), Shape("s2", <<Space>>, 1)>>,
     <<Shape("s1", <<"a">>, 0)>>,
     <<Shape("s1", <<Space, "b", Space>>, NoOrder)>>,
     <<Shape("s1", <<"a">>, 1), Shape("s2", <<"b">>, 0)>>,
     <<Shape("s1", <<"a">>, 0), Shape("s2", <<>>, 1)>>,
     <<Shape("s1", <<"b">>, 0), Shape("s2", <<"a">>, NoOrder)>>}

\* the sort key of sorted(request.textShapes, key=...)
OrderKey(shape) == IF shape.order = NoOrder THEN 0 ELSE shape.order

\* sorted() is stable: a shape goes after the shapes of a key not above its own
InsertByOrder(sorted, shape) ==
    LET n == Cardinality({k \in 1..Len(sorted) : OrderKey(sorted[k]) <= OrderKey(shape)})
    IN  SubSeq(sorted, 1, n) \o <<shape>> \o SubSeq(sorted, n + 1, Len(sorted))

RECURSIVE SortedShapes(_)
SortedShapes(shapes) ==
    IF shapes = <<>> THEN <<>>
    ELSE InsertByOrder(SortedShapes(SubSeq(shapes, 1, Len(shapes) - 1)), shapes[Len(shapes)])

\* text_shapes_payload: one entry per shape, with or without text
TextShapesPayload(shapes) ==
    LET sorted == SortedShapes(shapes)
    IN  [k \in 1..Len(sorted) |->
            [shape_id |-> sorted[k].shapeId, text |-> sorted[k].text,
             order |-> IF sorted[k].order = NoOrder THEN k - 1 ELSE sorted[k].order]]

\* if text_value: the trimmed text is not empty
HasText(shape) == Strip(shape.text) # <<>>

\* chunk_texts with chunk_metadata: the trimmed texts of the shapes that have one
ChunkTexts(shapes) ==
    LET kept == SelectSeq(SortedShapes(shapes), HasText)
    IN  [k \in 1..Len(kept) |-> [text |-> Strip(kept[k].text), shape_id |-> kept[k].shapeId]]

\* replace_typed_note_chunks: the rows, one per pair of zip(chunks, embeddings),
\* with the chunk_index of chunks_payload
TypedRows(chunk_texts, embeddings) ==
    [k \in 1..Min(Len(chunk_texts), Len(embeddings)) |->
        [chunk_index |-> k - 1, chunk_text |-> chunk_texts[k].text,
         embedding |-> embeddings[k], shape_id |-> chunk_texts[k].shape_id]]

Response(status, chunk_count, warning) ==
    [status |-> status, chunk_count |-> chunk_count, warning |-> warning]

\* the sync ends with the response
TsEnds(response) ==
    /\ ty_response' = response
    /\ ty_pc' = "idle"

\* a call inside the try raises: HTTP 500
TsRaises(at) ==
    /\ ty_pc = at
    /\ TsEnds(Response(500, 0, FALSE))
    /\ UNCHANGED <<ty_shapes, ty_chunk_texts, ty_embeddings, ty_i, ty_note, ty_rows,
                   ty_syncs, ty_before, ty_done>>

\* a sync without shapes is refused: HTTP 400
TsRejectEmpty ==
    /\ ty_pc = "idle"
    /\ ty_syncs < MaxSyncs
    /\ ty_syncs' = ty_syncs + 1
    /\ ty_shapes' = <<>>
    /\ ty_chunk_texts' = <<>>
    /\ ty_before' = ty_rows
    /\ ty_calls' = NoCalls
    /\ TsEnds(Response(400, 0, FALSE))
    /\ UNCHANGED <<ty_embeddings, ty_i, ty_note, ty_rows, ty_done, notTyped>>

\* a sync with shapes: the shapes are sorted and their texts collected
TsStart ==
    /\ ty_pc = "idle"
    /\ ty_syncs < MaxSyncs
    /\ \E shapes \in ShapeLists \ {<<>>} :
           /\ ty_shapes' = shapes
           /\ ty_chunk_texts' = ChunkTexts(shapes)
    /\ ty_syncs' = ty_syncs + 1
    /\ ty_before' = ty_rows
    /\ ty_calls' = NoCalls
    /\ ty_embeddings' = <<>>
    /\ ty_i' = 0
    /\ ty_response' = NoResponse
    /\ ty_pc' = "upsert"
    /\ UNCHANGED <<ty_note, ty_rows, ty_done, notTyped>>

\* a variant of TsUpsertNote without the return for a sync without text
TsUpsertNoteNoReturn ==
    /\ ty_pc = "upsert"
    /\ ty_note' = <<TextShapesPayload(ty_shapes)>>
    /\ ty_pc' = "embed"
    /\ UNCHANGED <<ty_shapes, ty_chunk_texts, ty_embeddings, ty_i, ty_rows, ty_response,
                   ty_syncs, ty_before, ty_calls, ty_done, notTyped>>

\* insert_typed_note upserts the note of the frame; a sync without
\* embed-able text returns here with the warning
TsUpsertNote ==
    /\ ty_pc = "upsert"
    /\ ty_note' = <<TextShapesPayload(ty_shapes)>>
    /\ IF ty_chunk_texts # <<>>
       THEN /\ ty_pc' = "embed"
            /\ UNCHANGED ty_response
       ELSE TsEnds(Response(200, 0, TRUE))
    /\ UNCHANGED <<ty_shapes, ty_chunk_texts, ty_embeddings, ty_i, ty_rows, ty_syncs,
                   ty_before, ty_calls, ty_done, notTyped>>

TsUpsertNoteFails == TsRaises("upsert") /\ UNCHANGED <<ty_calls, notTyped>>

\* generate_embeddings returns one vector per text; the provider is called
\* when there is a text
TsEmbed ==
    /\ ty_pc = "embed"
    /\ ty_embeddings' = [k \in 1..Len(ty_chunk_texts) |-> Embedding(ty_chunk_texts[k].text)]
    /\ ty_calls' = [ty_calls EXCEPT !.embed = IF ty_chunk_texts # <<>> THEN @ + 1 ELSE @]
    /\ ty_pc' = "delete"
    /\ UNCHANGED <<ty_shapes, ty_chunk_texts, ty_i, ty_note, ty_rows, ty_response, ty_syncs,
                   ty_before, ty_done, notTyped>>

TsEmbedFails ==
    /\ ty_chunk_texts # <<>>
    /\ TsRaises("embed")
    /\ ty_calls' = [ty_calls EXCEPT !.embed = @ + 1]
    /\ UNCHANGED notTyped

\* replace_typed_note_chunks: the delete of the note's rows; without chunks
\* it is all that is done
TsDelete ==
    /\ ty_pc = "delete"
    /\ ty_rows' = <<>>
    /\ ty_i' = 0
    /\ ty_calls' = [ty_calls EXCEPT !.replace = @ + 1]
    /\ IF ty_chunk_texts = <<>>
       THEN /\ TsEnds(Response(200, 0, FALSE))
            /\ ty_done' = ty_done \cup {<<>>}
       ELSE /\ ty_pc' = "insert"
            /\ UNCHANGED <<ty_response, ty_done>>
    /\ UNCHANGED <<ty_shapes, ty_chunk_texts, ty_embeddings, ty_note, ty_syncs, ty_before,
                   notTyped>>

TsDeleteFails ==
    /\ TsRaises("delete")
    /\ ty_calls' = [ty_calls EXCEPT !.replace = @ + 1]
    /\ UNCHANGED notTyped

\* replace_typed_note_chunks: the insert of one batch; after the last batch
\* the sync responds with the number of chunks
TsInsert ==
    /\ ty_pc = "insert"
    /\ LET rows == TypedRows(ty_chunk_texts, ty_embeddings)
           next == ty_i + TypedBatchSize
       IN  /\ ty_rows' = ty_rows \o PySlice(rows, ty_i, next)
           /\ ty_i' = next
           /\ IF next < Len(rows)
              THEN UNCHANGED <<ty_pc, ty_response, ty_done>>
              ELSE /\ TsEnds(Response(200, Len(ty_chunk_texts), FALSE))
                   /\ ty_done' = ty_done \cup {rows}
    /\ UNCHANGED <<ty_shapes, ty_chunk_texts, ty_embeddings, ty_note, ty_syncs, ty_before,
                   ty_calls, notTyped>>

TsInsertFails == TsRaises("insert") /\ UNCHANGED <<ty_calls, notTyped>>

InitTyped == BaseIdle /\ NoteIdle /\ TypedIdle /\ LinkIdle

NextTyped ==
    \/ TsRejectEmpty
    \/ TsStart
    \/ TsUpsertNote
    \/ TsUpsertNoteFails
    \/ TsEmbed
    \/ TsEmbedFails
    \/ TsDelete
    \/ TsDeleteFails
    \/ TsInsert
    \/ TsInsertFails

SpecTyped == InitTyped /\ [][NextTyped]_vars

\* ------------------------------------------------ properties, typed notes

\* C22: once a sync has replaced the chunks with success and no sync is in
\* progress, the stored chunks of the note are the chunks of one single sync
\* that replaced them, whole: the replacement is atomic.
C22_ReplaceIsAtomic ==
    ty_pc = "idle" /\ ty_done # {} => ty_rows \in ty_done

\* C27: a sync whose shapes yield no embed-able text upserts the note, leaves
\* the stored chunks as they were, calls neither the embedding provider nor
\* replace_typed_note_chunks, and responds with chunk_count 0 and the
\* warning; no step removes stored chunks unless its sync has a text.
C27_NoTextSyncKeepsChunks ==
    [][/\ (ty_pc' = "idle" /\ ty_pc # "idle" /\ ty_response'.status = 200
              /\ ChunkTexts(ty_shapes') = <<>>) =>
              /\ ty_response' = Response(200, 0, TRUE)
              /\ ty_note' = <<TextShapesPayload(ty_shapes')>>
              /\ ty_rows' = ty_before'
              /\ ty_calls' = NoCalls
       /\ ChunkTexts(ty_shapes') = <<>> => ty_pc' \in {"idle", "upsert"}
       /\ ty_rows' # ty_rows /\ Len(ty_rows') < Len(ty_rows) => ty_chunk_texts # <<>>]_vars
C27_Witness ==
    /\ ty_pc = "idle"
    /\ ty_response = Response(200, 0, TRUE)
    /\ ty_rows # <<>>
    /\ ty_rows = ty_before
    /\ ty_note = <<TextShapesPayload(ty_shapes)>>

\* ====================================================================
\* Canvas links (backend/pdf_processor.py, upsert_pdf_canvas_link and
\* delete_pdf_canvas_link; backend/server.py, the endpoint
\* upsert_pdf_canvas_link).  The table has shape_id as its unique key, which
\* is what upsert(on_conflict="shape_id") resolves on.  A row is a shape id
\* with a document id; a store call that raises has had no effect.
\* ====================================================================

\* the largest number of operations on the table
MaxOps == 4

LinkShapes == {"s1", "s2"}
\* the documents of requests: the stored ones and one that is not stored
RequestDocs == DocIds \cup {"d9"}

\* a variant of UpsertRow that inserts without looking for the shape's row
InsertRow(links, row) == Append(links, row)

\* upsert(payload, on_conflict="shape_id"): the row of the shape is replaced,
\* or a row is added when the shape has none
UpsertRow(links, row) ==
    IF \E k \in 1..Len(links) : links[k].shape_id = row.shape_id
    THEN [k \in 1..Len(links) |->
             IF links[k].shape_id = row.shape_id THEN row ELSE links[k]]
    ELSE Append(links, row)

\* delete().eq("shape_id", shape_id)
DeleteRows(links, shape_id) ==
    LET Other(row) == row.shape_id # shape_id
    IN  SelectSeq(links, Other)

Op(op, shape_id, document_id, status) ==
    [op |-> op, shape_id |-> shape_id, document_id |-> document_id, status |-> status]

\* an operation ends: what it was and what the table held before it
LinkOpEnds(op) ==
    /\ lk_ops < MaxOps
    /\ lk_ops' = lk_ops + 1
    /\ lk_prev' = lk_links
    /\ lk_last' = op

\* the endpoint: 404 for a document that is not stored, else the upsert
LinkUpsert ==
    \E shape_id \in LinkShapes, document_id \in RequestDocs :
        IF document_id \notin DocIds
        THEN /\ LinkOpEnds(Op("upsert", shape_id, document_id, 404))
             /\ UNCHANGED <<lk_links, notLink>>
        ELSE /\ LinkOpEnds(Op("upsert", shape_id, document_id, 200))
             /\ lk_links' = UpsertRow(lk_links, Link(shape_id, document_id))
             /\ UNCHANGED notLink

\* get_document or the upsert raises: HTTP 500
LinkUpsertFails ==
    \E shape_id \in LinkShapes, document_id \in RequestDocs :
        /\ LinkOpEnds(Op("upsert", shape_id, document_id, 500))
        /\ UNCHANGED <<lk_links, notLink>>

\* delete_pdf_canvas_link
LinkDelete ==
    \E shape_id \in LinkShapes :
        /\ LinkOpEnds(Op("delete", shape_id, "", 200))
        /\ lk_links' = DeleteRows(lk_links, shape_id)
        /\ UNCHANGED notLink

\* delete_pdf_canvas_link raises
LinkDeleteFails ==
    \E shape_id \in LinkShapes :
        /\ LinkOpEnds(Op("delete", shape_id, "", 500))
        /\ UNCHANGED <<lk_links, notLink>>

InitLinks == BaseIdle /\ NoteIdle /\ TypedIdle /\ LinkIdle

NextLinks ==
    \/ LinkUpsert
    \/ LinkUpsertFails
    \/ LinkDelete
    \/ LinkDeleteFails

SpecLinks == InitLinks /\ [][NextLinks]_vars

\* ----------------------------------------------- properties, canvas links

\* the documents a shape is linked to, one per row of the shape
LinkedDocs(links, shape_id) ==
    {links[k].document_id : k \in {j \in 1..Len(links) : links[j].shape_id = shape_id}}

\* C23: every shape id has at most one row; after an upsert the shape is
\* linked to the upsert's document and to no other, whether it was linked
\* before or not; after a delete the shape has no link; the links of the
\* other shapes are as before the operation.
C23_OneLinkPerShape ==
    /\ \A s \in LinkShapes :
           Cardinality({k \in 1..Len(lk_links) : lk_links[k].shape_id = s}) <= 1
    /\ lk_last.op = "upsert" /\ lk_last.status = 200 =>
           LinkedDocs(lk_links, lk_last.shape_id) = {lk_last.document_id}
    /\ lk_last.op = "delete" /\ lk_last.status = 200 =>
           LinkedDocs(lk_links, lk_last.shape_id) = {}
    /\ \A s \in LinkShapes :
           s # lk_last.shape_id \/ lk_last.status # 200 =>
               LinkedDocs(lk_links, s) = LinkedDocs(lk_prev, s)
C23_Witness ==
    /\ lk_last.op = "upsert"
    /\ lk_last.status = 200
    /\ LinkedDocs(lk_prev, lk_last.shape_id) = DocIds \ {lk_last.document_id}
    /\ \E s \in LinkShapes \ {lk_last.shape_id} : LinkedDocs(lk_links, s) # {}

====
